---- MODULE Spec2Model ----
(***************************************************************************)
(* Model of the astro-be backend's guarded consultation pipeline:          *)
(*   app/utils/evaluator.py     keyword_block, evaluate_query,             *)
(*                              evaluate_output, extract_reference_date    *)
(*   app/services/chat_agent.py generate_response                          *)
(*   app/utils/divine_api.py    fetch_divine_data                          *)
(* Texts are sequences of one-character strings, so that substring tests,  *)
(* strip(), lower() and upper() are computed as the code computes them.    *)
(***************************************************************************)
EXTENDS Integers, Sequences, FiniteSets, TLC

\* ------------------------------------------------------------------ bounds
\* Longest generated text handed to the evaluators (explicit samples are longer).
MaxTextLen == 4

\* ------------------------------------------------------------ text helpers
UpperLetters ==
    <<"A","B","C","D","E","F","G","H","I","J","K","L","M",
      "N","O","P","Q","R","S","T","U","V","W","X","Y","Z">>

LowerLetters ==
    <<"a","b","c","d","e","f","g","h","i","j","k","l","m",
      "n","o","p","q","r","s","t","u","v","w","x","y","z">>

Whitespace == {" ", "\n", "\t"}

\* str.lower() on one character
LowerChar(c) ==
    IF \E i \in DOMAIN UpperLetters : UpperLetters[i] = c
    THEN LowerLetters[CHOOSE i \in DOMAIN UpperLetters : UpperLetters[i] = c]
    ELSE c

\* str.upper() on one character
UpperChar(c) ==
    IF \E i \in DOMAIN LowerLetters : LowerLetters[i] = c
    THEN UpperLetters[CHOOSE i \in DOMAIN LowerLetters : LowerLetters[i] = c]
    ELSE c

Lower(s) == [i \in DOMAIN s |-> LowerChar(s[i])]

Upper(s) == [i \in DOMAIN s |-> UpperChar(s[i])]

RECURSIVE LStrip(_)
LStrip(s) == IF s # <<>> /\ Head(s) \in Whitespace THEN LStrip(Tail(s)) ELSE s

RECURSIVE RStrip(_)
RStrip(s) ==
    IF s # <<>> /\ s[Len(s)] \in Whitespace THEN RStrip(SubSeq(s, 1, Len(s) - 1)) ELSE s

\* str.strip()
Strip(s) == RStrip(LStrip(s))

\* Python's `w in s` on strings
Contains(s, w) ==
    \E i \in 0..(Len(s) - Len(w)) : SubSeq(s, i + 1, i + Len(w)) = w

\* All texts over alphabet A of length at most n
TextsUpTo(A, n) == UNION {[1..k -> A] : k \in 0..n}

\* --------------------------------------------------- evaluator.py: guardrails
BLOCKED_KEYWORDS ==
  <<
    <<"s","u","i","c","i","d","e">>,
    <<"k","i","l","l">>,
    <<"m","u","r","d","e","r">>,
    <<"t","e","r","r","o","r","i","s","m">>,
    <<"i","l","l","e","g","a","l">>,
    <<"h","a","c","k">>,
    <<"w","e","a","p","o","n">>,
    <<"d","r","u","g","s">>,
    <<"l","o","t","t","e","r","y">>,
    <<"d","i","a","g","n","o","s","i","s">>
  >>

SAFE == <<"S","A","F","E">>

UNSAFE == <<"U","N","S","A","F","E">>

\* Mutant of keyword_block: the query is not lower-cased before the test.
keyword_block_case_sensitive(query) ==
    \E k \in DOMAIN BLOCKED_KEYWORDS : Contains(query, BLOCKED_KEYWORDS[k])

\* Mutant of keyword_block: all() instead of any().
keyword_block_all(query) ==
    \A k \in DOMAIN BLOCKED_KEYWORDS : Contains(Lower(query), BLOCKED_KEYWORDS[k])

\* any(word in query.lower() for word in BLOCKED_KEYWORDS)
keyword_block(query) ==
    \E k \in DOMAIN BLOCKED_KEYWORDS : Contains(Lower(query), BLOCKED_KEYWORDS[k])

\* verdict = response.candidates[0].content.parts[0].text.strip().upper()
Verdict(text) == Upper(Strip(text))

\* A reply of the classification service: ok = FALSE is a call that raised
\* (transport failure, or a response without candidates / text).
Reply(text) == [ok |-> TRUE, text |-> text]

RaisedReply == [ok |-> FALSE, text |-> <<>>]

\* What one evaluation did: its return value, the number of classification
\* calls it made, and whether it raised instead of returning.
Outcome(result, calls, raised) == [result |-> result, calls |-> calls, raised |-> raised]

\* Mutant of evaluate_query: fail-open comparison (verdict != "UNSAFE").
evaluate_query_fail_open(query, reply) ==
    IF keyword_block(query) THEN Outcome(FALSE, 0, FALSE)
    ELSE IF ~reply.ok THEN Outcome(FALSE, 1, TRUE)
    ELSE Outcome(Verdict(reply.text) # UNSAFE, 1, FALSE)

\* Mutant of evaluate_query: the classifier is consulted before the denylist.
evaluate_query_classify_first(query, reply) ==
    IF ~reply.ok THEN Outcome(FALSE, 1, TRUE)
    ELSE Outcome(~keyword_block(query) /\ Verdict(reply.text) = SAFE, 1, FALSE)

\* evaluate_query(query), given the reply the classification service would give
evaluate_query(query, reply) ==
    IF keyword_block(query) THEN Outcome(FALSE, 0, FALSE)
    ELSE IF ~reply.ok THEN Outcome(FALSE, 1, TRUE)
    ELSE Outcome(Verdict(reply.text) = SAFE, 1, FALSE)

\* Mutant of evaluate_output: substring test ("SAFE" in verdict).
evaluate_output_substring(answer, reply) ==
    IF ~reply.ok THEN Outcome(FALSE, 1, TRUE)
    ELSE Outcome(Contains(Verdict(reply.text), SAFE), 1, FALSE)

\* evaluate_output(answer), given the reply the classification service would give
evaluate_output(answer, reply) ==
    IF ~reply.ok THEN Outcome(FALSE, 1, TRUE)
    ELSE Outcome(Verdict(reply.text) = SAFE, 1, FALSE)

\* ------------------------------------ evaluator.py: extract_reference_date
\* Dates are proleptic Gregorian ordinals (date.toordinal()); a formatted date
\* is the text strftime("%Y-%m-%d") produces.
MAXYEAR == 9999

\* timedelta's largest magnitude in days
MaxDeltaDays == 999999999

IsLeap(y) == y % 4 = 0 /\ (y % 100 # 0 \/ y % 400 = 0)

DaysBeforeYear(y) == (y - 1) * 365 + (y - 1) \div 4 - (y - 1) \div 100 + (y - 1) \div 400

DaysInMonth(y, m) ==
    IF m = 2 THEN (IF IsLeap(y) THEN 29 ELSE 28)
    ELSE IF m \in {4, 6, 9, 11} THEN 30 ELSE 31

RECURSIVE DaysBeforeMonth(_, _)
DaysBeforeMonth(y, m) ==
    IF m = 1 THEN 0 ELSE DaysBeforeMonth(y, m - 1) + DaysInMonth(y, m - 1)

Ymd2Ord(y, m, d) == DaysBeforeYear(y) + DaysBeforeMonth(y, m) + d

MaxOrdinal == Ymd2Ord(MAXYEAR, 12, 31)

Ord2Ymd(n) ==
    LET y == CHOOSE c \in (n \div 366)..(n \div 365 + 1) :
                 c >= 1 /\ DaysBeforeYear(c) < n /\ n <= DaysBeforeYear(c + 1)
        doy == n - DaysBeforeYear(y)
        m == CHOOSE c \in 1..12 :
                 DaysBeforeMonth(y, c) < doy /\ doy <= DaysBeforeMonth(y, c) + DaysInMonth(y, c)
    IN  [year |-> y, month |-> m, day |-> doy - DaysBeforeMonth(y, m)]

DigitChars == <<"0","1","2","3","4","5","6","7","8","9">>

IsDigit(c) == \E i \in DOMAIN DigitChars : DigitChars[i] = c

DigitValue(c) == (CHOOSE i \in DOMAIN DigitChars : DigitChars[i] = c) - 1

\* n as `width` decimal digits, zero padded
RECURSIVE Pad(_, _)
Pad(n, width) ==
    IF width = 0 THEN <<>> ELSE Append(Pad(n \div 10, width - 1), DigitChars[(n % 10) + 1])

\* strftime("%Y-%m-%d")
strftime(n) ==
    LET d == Ord2Ymd(n)
    IN  Pad(d.year, 4) \o <<"-">> \o Pad(d.month, 2) \o <<"-">> \o Pad(d.day, 2)

\* int(text) for a text of decimal digits
RECURSIVE ParseInt(_)
ParseInt(s) ==
    IF s = <<>> THEN 0 ELSE ParseInt(SubSeq(s, 1, Len(s) - 1)) * 10 + DigitValue(s[Len(s)])

\* Index of the last digit of the maximal digit run that starts at i
RECURSIVE DigitRunEnd(_, _)
DigitRunEnd(s, i) ==
    IF i + 1 <= Len(s) /\ IsDigit(s[i + 1]) THEN DigitRunEnd(s, i + 1) ELSE i

NextWord == <<"n","e","x","t"," ">>

RelUnits == << <<"d","a","y">>, <<"w","e","e","k">>, <<"m","o","n","t","h">>, <<"y","e","a","r">> >>

\* Days per unit: timedelta(days=num), timedelta(weeks=num), days=num*30, days=num*365
UnitDays == <<1, 7, 30, 365>>

StartsAt(s, i, w) == i + Len(w) - 1 <= Len(s) /\ SubSeq(s, i, i + Len(w) - 1) = w

\* Whether r"next (\d+) (day|week|month|year)s?" matches s starting at index i
RelMatchAt(s, i) ==
    /\ StartsAt(s, i, NextWord)
    /\ i + Len(NextWord) <= Len(s)
    /\ IsDigit(s[i + Len(NextWord)])
    /\ LET e == DigitRunEnd(s, i + Len(NextWord))
       IN  /\ e + 1 <= Len(s)
           /\ s[e + 1] = " "
           /\ \E u \in DOMAIN RelUnits : StartsAt(s, e + 2, RelUnits[u])

\* re.search(...): the leftmost match, as [found, num, unit]
RelMatch(s) ==
    IF \E i \in 1..Len(s) : RelMatchAt(s, i)
    THEN LET i == CHOOSE j \in 1..Len(s) :
                      RelMatchAt(s, j) /\ \A k \in 1..(j - 1) : ~RelMatchAt(s, k)
             b == i + Len(NextWord)
             e == DigitRunEnd(s, b)
         IN  [found |-> TRUE,
              num |-> ParseInt(SubSeq(s, b, e)),
              unit |-> CHOOSE u \in DOMAIN RelUnits : StartsAt(s, e + 2, RelUnits[u])]
    ELSE [found |-> FALSE, num |-> 0, unit |-> 1]

\* None
None == <<>>

\* What dateutil's fuzzy parse gave: ok = FALSE is an exception (swallowed by the
\* try/except of lines 97-102), otherwise the parsed date.
ParseFailed == [ok |-> FALSE, date |-> 0]

Parsed(d) == [ok |-> TRUE, date |-> d]

Extracted(value) == [raised |-> FALSE, value |-> value]

\* An exception leaving extract_reference_date (OverflowError of the date arithmetic)
ExtractRaised == [raised |-> TRUE, value |-> None]

\* Mutant of extract_reference_date: the relative branch is skipped.
extract_reference_date_no_relative(query, today, parsed) ==
    IF parsed.ok /\ parsed.date # today THEN Extracted(strftime(parsed.date))
    ELSE Extracted(None)

\* extract_reference_date(query) at date `today`, given dateutil's outcome
extract_reference_date(query, today, parsed) ==
    IF parsed.ok /\ parsed.date # today THEN Extracted(strftime(parsed.date))
    ELSE LET rel == RelMatch(Lower(query))
             days == rel.num * UnitDays[rel.unit]
         IN  IF ~rel.found THEN Extracted(None)
             ELSE IF rel.num > MaxDeltaDays \div UnitDays[rel.unit] THEN ExtractRaised
             ELSE IF today + days > MaxOrdinal THEN ExtractRaised
             ELSE Extracted(strftime(today + days))

\* Two-digit years: ParserInfo.convertyear puts them within 50 years of the
\* current year
convertyear(v, current) ==
    LET y == v + (current \div 100) * 100
    IN  IF y >= current + 50 THEN y - 100
        ELSE IF y < current - 50 THEN y + 100 ELSE y

\* date_parser.parse(query, fuzzy=True, default=today) of line 98, for a query
\* with no month name, weekday name or time in it and at most one run of
\* digits (not 6, 8, 12 or 14 digits long, which dateutil reads as a packed
\* date): fuzzy parsing skips the words and keeps the number, a value up to
\* 31 as the day of the default's month and a larger one as the year; the
\* other fields come from the default. A query without a number, and a day
\* or year that replace() refuses, raise (ParserError, ValueError).
dateutil_parse(query, today) ==
    IF ~\E i \in 1..Len(query) : IsDigit(query[i]) THEN ParseFailed
    ELSE LET b == CHOOSE i \in 1..Len(query) :
                      IsDigit(query[i]) /\ \A k \in 1..(i - 1) : ~IsDigit(query[k])
             v == ParseInt(SubSeq(query, b, DigitRunEnd(query, b)))
             t == Ord2Ymd(today)
             y == IF v < 100 THEN convertyear(v, t.year) ELSE v
         IN  IF v <= 31
             THEN IF 1 <= v /\ v <= DaysInMonth(t.year, t.month)
                  THEN Parsed(Ymd2Ord(t.year, t.month, v)) ELSE ParseFailed
             ELSE IF y > MAXYEAR \/ t.day > DaysInMonth(y, t.month) THEN ParseFailed
             ELSE Parsed(Ymd2Ord(y, t.month, t.day))

\* str(n)
RECURSIVE Decimal(_)
Decimal(n) ==
    IF n < 10 THEN <<DigitChars[n + 1]>> ELSE Append(Decimal(n \div 10), DigitChars[(n % 10) + 1])

\* ------------------------------------- inputs of extract_reference_date
Promotion == <<"W","i","l","l"," ","I"," ","g","e","t"," ","a"," ","p","r","o","m","o","t","i","o","n"," ","n","e","x","t"," ","2"," ","w","e","e","k","s","?">>

\* The N of "next N units"
Offsets_N == {0, 1, 2, 15, 30, 31, 45, 80, 120, 9999999}

\* "next N unit" and "Next N units"
RelativeQueries ==
    { NextWord \o Decimal(n) \o <<" ">> \o RelUnits[u] : n \in Offsets_N, u \in DOMAIN RelUnits }
    \cup { <<"N","e","x","t"," ">> \o Decimal(n) \o <<" ">> \o RelUnits[u] \o <<"s">> :
              n \in Offsets_N, u \in DOMAIN RelUnits }

DateQueries == RelativeQueries \cup {Promotion, <<"c","a","r","e","e","r">>}

\* datetime.utcnow() of line 94
Todays == {Ymd2Ord(2025, 1, 1), Ymd2Ord(2025, 1, 15), Ymd2Ord(2025, 2, 28)}

\* ------------------------------------------------- inputs of the evaluators
SampleTexts ==
    { <<"l","o","t","t","e","r","y"," ","n","u","m","b","e","r","s">>,
      <<"m","y"," ","S","k","i","l","l">>,
      <<"K","I","L","L">>,
      <<"d","r","u","g">>,
      <<"j","o","b">>,
      <<"G","o","o","d"," ","t","i","m","e","s"," ","a","h","e","a","d">>,
      <<"k","i","l","l"," ","S","a","t","u","r","n">> }

EvalTexts == SampleTexts \cup TextsUpTo({"k", "i", "l"}, MaxTextLen)

SampleResponses ==
    { UNSAFE,
      <<"s","a","f","e">>,
      <<"S","a","f","e">>,
      <<" ","S","A","F","E","\n">>,
      <<"S","A","F","E",".">>,
      <<"S","A","F","E"," ","U","N","S","A","F","E">>,
      <<"N","O","T"," ","S","A","F","E">>,
      <<"S","A"," ","F","E">>,
      <<"M","A","Y","B","E">> }

ClassifierResponses == SampleResponses \cup TextsUpTo({"S", "A", "F", "E"}, Len(SAFE))

ClassifierReplies == {Reply(t) : t \in ClassifierResponses} \cup {RaisedReply}

\* --------------------------------------------- chat_agent.py: fixed texts
\* "Sorry, I cannot answer this type of query." (the leading emoji is left out)
REFUSAL ==
    <<"S","o","r","r","y",","," ","I"," ","c","a","n","n","o","t"," ","a","n","s","w","e","r",
      " ","t","h","i","s"," ","t","y","p","e"," ","o","f"," ","q","u","e","r","y",".">>

\* The final fallback of lines 114-118, cut to the clause that holds the date:
\* "... as of {reference_date}, the influences are mixed. ..."
Template(reference_date) ==
    <<"a","s"," ","o","f"," ">> \o reference_date
        \o <<","," ","t","h","e"," ","i","n","f","l","u","e","n","c","e","s"," ",
             "a","r","e"," ","m","i","x","e","d",".">>

\* 60 * 60 * 24 * 30 seconds
MESSAGES_TTL == 2592000

\* json.dumps / json.loads of one cache entry {"role": ..., "content": ...}
Message(role, content) == [role |-> role, content |-> content]

JsonDumps(m) == [json |-> m]

JsonLoads(text) == text.json

\* A chat_messages row (models.py ChatMessage: sender, message)
Row(sender, message) == [sender |-> sender, message |-> message]

\* ------------------------------------------------ inputs of generate_response
\* The bounds of the pipeline
MaxRequests == 2

MaxExchanges == 2

Requests == 1..MaxRequests

\* The requests the serial specification runs (one in flight per session, as the
\* caller is expected to serialize them)
SerialRequests == {1}

Today == Ymd2Ord(2025, 1, 1)

Queries ==
    { <<"k","i","l","l">>,
      <<"c","a","r","e","e","r">>,
      <<"n","e","x","t"," ","2"," ","w","e","e","k","s">>,
      <<"n","e","x","t"," ","9","9","9","9","9","9","9"," ","d","a","y","s">> }

\* What client.models.generate_content returns as text; ok = FALSE is a call that
\* raised (transport failure, or a response without candidates / text)
GenerationReplies ==
    { Reply(<<"G","o","o","d"," ","t","i","m","e","s"," ","a","h","e","a","d">>),
      Reply(<<" ","S","a","t","u","r","n"," ","d","a","s","h","a","\n">>),
      RaisedReply }

PipelineReplies ==
    { Reply(SAFE), Reply(UNSAFE), Reply(<<"M","A","Y","B","E">>), RaisedReply }

DateutilOutcomes == { ParseFailed, Parsed(Today), Parsed(Today + 1) }

\* ------------------------------------------- fetch_divine_data: fixed data
\* redis.setex(cache_key, 21600, ...): the lifetime of a facts entry, seconds
FACTS_TTL == 21600

MaxProfiles == 2

MaxTicks == 2

Profiles == 1..MaxProfiles

\* The coroutines that may be inside fetch_divine_data at the same time
Fetchers == {1, 2}

\* "Uses Redis cache for optimization (6 hours)": the window facts are held for
SixHours == 6 * 60 * 60

\* cache_key = f"astro:{profile.id}"
CacheKey(profile) == <<"astro", profile>>

\* One half of the result: a document, or None
Null == [null |-> TRUE, doc |-> ""]

Doc(d) == [null |-> FALSE, doc |-> d]

\* An httpx response: its status code and its body
Response(status, body) == [status |-> status, body |-> body]

NoResponse == Response(0, "")

\* The birth attributes a profile can have (date, time, place, offset), as one value
BirthAttrs == {"a", "b"}

\* The payload of lines 24-40 carries the birth attributes of the profile
Payload(birth) == birth

\* The document the external service computes for a payload
DocFor(payload) == IF payload = "a" THEN "doc-a" ELSE "doc-b"

\* What a POST of a payload can come back with; a transport failure raises instead
ResponsesTo(payload) ==
    { Response(200, DocFor(payload)), Response(200, "<html>"), Response(500, "err") }

Responses == UNION { ResponsesTo(Payload(birth)) : birth \in BirthAttrs }

\* response.json(): the parsed body, or a decoding error on a body that is not JSON
ResponseJson(response) ==
    IF response.body = "<html>" THEN [ok |-> FALSE, value |-> Null]
    ELSE [ok |-> TRUE, value |-> Doc(response.body)]

HalfOf_ignore_status(response) == ResponseJson(response).value

\* planetary.json() if planetary.status_code == 200 else None
HalfOf(response) ==
    IF response.status = 200 THEN ResponseJson(response).value ELSE Null

\* The evaluation of a half raises exactly when .json() is called and fails
HalfRaises(response) == response.status = 200 /\ ~ResponseJson(response).ok

Result(planetary, dasha) ==
    [planetary_positions |-> planetary, dasha_details |-> dasha]

NoResult == Result(Null, Null)

\* json.dumps / json.loads of a result: the text is a sequence of tokens
HalfToken(half) == IF half.null THEN "null" ELSE half.doc

TokenHalf(token) == IF token = "null" THEN Null ELSE Doc(token)

json_dumps(result) ==
    <<"{", "planetary_positions", ":", HalfToken(result.planetary_positions), ",",
      "dasha_details", ":", HalfToken(result.dasha_details), "}">>

json_loads(text) == Result(TokenHalf(text[4]), TokenHalf(text[8]))

CacheHit_needs_both_halves(cached) ==
    cached # None /\ \A i \in DOMAIN cached : cached[i] # "null"

\* `if cached:` -- the truthiness of what redis.get returned
CacheHit(cached) == cached # None

\* ------------------------------------------------------------------- state
VARIABLES
    ev,             \* the last evaluator call: function, text, classifier reply, outcome
    req,            \* per request: the position in generate_response and its locals
    chat_messages,  \* the durable log: committed ChatMessage rows of the session
    messages_list,  \* the Redis list chat:messages:{session.id} (serialized entries)
    messages_expiry,\* when that key expires (-1: the key has no expiry)
    now,            \* the clock, in seconds
    fetch,          \* per coroutine: the position in fetch_divine_data and its locals
    astro_cache,    \* the Redis keys astro:{profile.id}: text and expiry time
    resolved,       \* per profile: the last fetch that wrote its facts, and when
    ticks,          \* how many times the clock advanced
    profiles,       \* the profiles table: birth attributes and the stored facts
    route,          \* the profile route in flight: its position and its locals
    created_at,     \* the created_at column of the rows of chat_messages
    conversation,   \* what the last get_full_conversation returned
    users,          \* the users table: the phone of each user
    otps,           \* the otps table, in insertion order
    refresh_tokens, \* the refresh_tokens table
    revoked,        \* the refresh tokens a logout has succeeded with
    auth,           \* the response of the last auth route
    profile_table,  \* per profile id: whether the row exists, and its user_id
    chat_sessions,  \* the chat_sessions table, in insertion order
    message_rows,   \* the chat_messages rows of all sessions, in insertion order
    chat            \* the response of the last chat or profile route

vars == <<ev, req, chat_messages, messages_list, messages_expiry, now,
          fetch, astro_cache, resolved, ticks, profiles, route,
          created_at, conversation,
          users, otps, refresh_tokens, revoked, auth,
          profile_table, chat_sessions, message_rows, chat>>

authVars == <<users, otps, refresh_tokens, revoked, auth>>

ownerVars == <<profile_table, chat_sessions, message_rows, chat>>

profileVars == <<profiles, route>>

storeVars == <<created_at, conversation>>

factsVars == <<fetch, astro_cache, resolved, ticks>>

evVars == <<ev>>

pipeVars == <<req, chat_messages, messages_list, messages_expiry>>

\* The evaluators are pure functions of (text, classifier reply): the inputs are
\* drawn when the call is set up, and one action applies each function.
EvInit ==
    \E t \in EvalTexts, reply \in ClassifierReplies :
        ev = [fn |-> "none", text |-> t, reply |-> reply,
              out |-> Outcome(FALSE, 0, FALSE)]

EvIdle ==
    ev = [fn |-> "done", text |-> <<>>, reply |-> RaisedReply,
          out |-> Outcome(FALSE, 0, FALSE)]

\* A request slot before generate_response is entered
IdleRequest ==
    [pc |-> "idle", query |-> <<>>, chat_history |-> <<>>, reference_date |-> <<>>,
     answer |-> <<>>, safe |-> FALSE, valid |-> FALSE,
     classified |-> 0,     \* classification calls made by evaluate_query
     prompts |-> <<>>,     \* the prompt variant of each generation call made
     facts_context |-> [planetary |-> <<>>, dasha |-> <<>>],
                           \* planetary_context and dasha_context of lines 70-71
     checks |-> <<>>,      \* each evaluate_output call: the answer and the verdict
     result |-> <<>>,      \* the value returned to the caller
     exception |-> "none", \* the exception that left generate_response
     log_base |-> 0,       \* length of chat_messages when the request started
     cache_base |-> 0,     \* length of messages_list when the request started
     committed |-> FALSE,  \* db.commit() of line 124 succeeded
     pushed |-> 0]         \* rpush calls of lines 127-128 that succeeded

PipeInit ==
    /\ req = [r \in Requests |-> IdleRequest]
    /\ chat_messages = <<>>
    /\ messages_list = <<>>
    /\ messages_expiry = -1

\* A coroutine slot before fetch_divine_data is entered
IdleFetch ==
    [pc |-> "idle", profile |-> 0,
     payload |-> "",           \* the payload built from the profile's attributes
     planetary |-> NoResponse, dasha |-> NoResponse,
     result |-> NoResult,      \* the local `result`, then the value returned
     calls |-> <<>>,           \* the endpoints this call posted to, in order
     hit |-> FALSE,            \* returned from the cache branch of line 21
     fresh |-> FALSE,          \* at line 19, facts written less than 6 hours ago existed
     expected |-> NoResult,    \* those facts
     exception |-> "none"]

NeverResolved == [known |-> FALSE, at |-> 0, value |-> NoResult]

FactsInit ==
    /\ fetch = [f \in Fetchers |-> IdleFetch]
    /\ astro_cache = << >>
    /\ resolved = [p \in Profiles |-> NeverResolved]
    /\ ticks = 0

\* json.dumps(divine_data.get("planetary_positions", {})): the key is always there
json_dumps_half(half) == <<HalfToken(half)>>

json_loads_half(text) == TokenHalf(text[1])

\* A profile row: the facts columns are None until a route stores them
ProfileRow(birth, planetary_positions, dasha_details) ==
    [birth |-> birth, planetary_positions |-> planetary_positions,
     dasha_details |-> dasha_details]

\* A profile route before a request arrives
IdleRoute ==
    [pc |-> "idle", fn |-> "none", profile |-> 0,
     edited |-> FALSE,       \* the request changed the birth attributes
     had_entry |-> FALSE,    \* the profile's cache key existed when the request came
     response |-> NoResult,  \* the facts of the ProfileResponse returned
     exception |-> "none"]

\* Profiles as create_profile commits them at line 113, before any facts
ProfileInit ==
    /\ profiles = [p \in Profiles |-> ProfileRow("a", None, None)]
    /\ route = IdleRoute

\* A JWT: jwt.encode of {"sub": ..., "exp": ...}; jose writes exp as whole
\* seconds, and the encoding is a function of the two claims
jwt_encode(sub, exp) == [sub |-> sub, exp |-> exp]

NoToken == jwt_encode("", 0)

\* What an auth route answered: the status, and the tokens of a 200
AuthReply(fn, status, token, access_token, refresh_token) ==
    [fn |-> fn, status |-> status, token |-> token,
     access_token |-> access_token, refresh_token |-> refresh_token]

AuthInit ==
    /\ users = {}
    /\ otps = <<>>
    /\ refresh_tokens = {}
    /\ revoked = {}
    /\ auth = AuthReply("none", 0, NoToken, NoToken, NoToken)

\* What a chat or profile route answered to user `user`
ChatReply(fn, user, session, status, rows) ==
    [fn |-> fn, user |-> user, session |-> session, status |-> status, rows |-> rows]

OwnerInit ==
    /\ profile_table = [p \in Profiles |-> [state |-> "none", user_id |-> ""]]
    /\ chat_sessions = <<>>
    /\ message_rows = <<>>
    /\ chat = ChatReply("none", "", 0, 0, {})

StoreInit ==
    /\ created_at = <<>>
    /\ conversation = [read |-> FALSE, total |-> 0, limit |-> 0, offset |-> 0,
                       rows |-> <<>>]

InitEval == EvInit /\ PipeInit /\ FactsInit /\ ProfileInit /\ StoreInit
        /\ AuthInit /\ OwnerInit /\ now = 0

\* The profile a chat session belongs to
SessionProfile == 1

\* What the facts columns of a stored profile can hold: nothing (the fetch of
\* create_profile raised after line 113), or the halves a route stored
StoredFacts ==
    { <<None, None>> } \cup
    { <<json_dumps_half(planetary), json_dumps_half(dasha)>> :
        planetary \in {Null, Doc(DocFor("a"))}, dasha \in {Null, Doc(DocFor("a"))} }

\* The state a chat session starts in: its profile is stored, no route in flight
SessionInit ==
    /\ \E facts \in StoredFacts :
          profiles = [p \in Profiles |->
                        IF p = SessionProfile THEN ProfileRow("a", facts[1], facts[2])
                        ELSE ProfileRow("a", None, None)]
    /\ route = IdleRoute

Init == EvIdle /\ PipeInit /\ FactsInit /\ SessionInit /\ StoreInit
        /\ AuthInit /\ OwnerInit /\ now = 0

InitFacts == EvIdle /\ PipeInit /\ FactsInit /\ ProfileInit /\ StoreInit
        /\ AuthInit /\ OwnerInit /\ now = 0

\* -------------------------------------------------------- evaluator calls
\* One call of evaluate_query on the drawn inputs.
EvaluateQuery ==
    /\ ev.fn = "none"
    /\ ev' = [ev EXCEPT !.fn = "evaluate_query",
                        !.out = evaluate_query(ev.text, ev.reply)]
    /\ UNCHANGED <<pipeVars, now, factsVars, profileVars, storeVars, authVars, ownerVars>>

\* One call of evaluate_output on the drawn inputs.
EvaluateOutput ==
    /\ ev.fn = "none"
    /\ ev' = [ev EXCEPT !.fn = "evaluate_output",
                        !.out = evaluate_output(ev.text, ev.reply)]
    /\ UNCHANGED <<pipeVars, now, factsVars, profileVars, storeVars, authVars, ownerVars>>

NextEval == EvaluateQuery \/ EvaluateOutput

SpecEval == InitEval /\ [][NextEval]_vars

\* extract_reference_date is a function of (query, utcnow): the inputs are drawn
\* when the call is set up, and one action applies the function.
DateInit ==
    \E q \in DateQueries, t \in Todays :
        ev = [fn |-> "none", text |-> q, today |-> t, out |-> Extracted(None)]

InitDate == DateInit /\ PipeInit /\ FactsInit /\ ProfileInit /\ StoreInit
        /\ AuthInit /\ OwnerInit /\ now = 0

\* One call of extract_reference_date on the drawn inputs.
ExtractReferenceDate ==
    /\ ev.fn = "none"
    /\ ev' = [ev EXCEPT !.fn = "extract_reference_date",
                        !.out = extract_reference_date(ev.text, ev.today,
                                                       dateutil_parse(ev.text, ev.today))]
    /\ UNCHANGED <<pipeVars, now, factsVars, profileVars, storeVars, authVars, ownerVars>>

NextDate == ExtractReferenceDate

SpecDate == InitDate /\ [][NextDate]_vars

\* ------------------------------------------- chat_agent.py: generate_response
Exchanges == Len(chat_messages) \div 2

Raise(r, name) == [req[r] EXCEPT !.pc = "raised", !.exception = name]

\* ask_query calls generate_response(db, session, profile, query); line 43
Enter(r, q) ==
    req' = [req EXCEPT ![r] = [IdleRequest EXCEPT
               !.pc = "input_guard", !.query = q,
               !.log_base = Len(chat_messages),
               !.cache_base = Len(messages_list)]]

Start(r) ==
    /\ req[r].pc \in {"idle", "returned", "raised"}
    /\ Exchanges < MaxExchanges
    /\ \E q \in Queries : Enter(r, q)
    /\ UNCHANGED <<ev, chat_messages, messages_list, messages_expiry, now, factsVars, profileVars, storeVars, authVars, ownerVars>>

\* Mutant of InputGuard: the refused exchange is recorded as a turn.
InputGuard_logs_refusal(r) ==
    /\ req[r].pc = "input_guard"
    /\ \E reply \in PipelineReplies :
         LET out == evaluate_query(req[r].query, reply)
             seen == [req[r] EXCEPT !.classified = @ + out.calls]
         IN  /\ req' = [req EXCEPT ![r] =
                   IF out.raised
                   THEN [seen EXCEPT !.pc = "raised", !.exception = "classifier"]
                   ELSE IF ~out.result
                   THEN [seen EXCEPT !.pc = "returned", !.result = REFUSAL]
                   ELSE [seen EXCEPT !.pc = "history", !.safe = TRUE]]
             /\ chat_messages' =
                   IF ~out.raised /\ ~out.result
                   THEN chat_messages \o
                            <<Row("user", req[r].query), Row("agent", REFUSAL)>>
                   ELSE chat_messages
    /\ UNCHANGED <<ev, messages_list, messages_expiry, now, factsVars, profileVars, storeVars, authVars, ownerVars>>

\* Step 1, lines 46-48: evaluate_query, and the refusal
InputGuard(r) ==
    /\ req[r].pc = "input_guard"
    /\ \E reply \in PipelineReplies :
         LET out == evaluate_query(req[r].query, reply)
             seen == [req[r] EXCEPT !.classified = @ + out.calls]
         IN  req' = [req EXCEPT ![r] =
                 IF out.raised THEN [seen EXCEPT !.pc = "raised", !.exception = "classifier"]
                 ELSE IF ~out.result THEN [seen EXCEPT !.pc = "returned", !.result = REFUSAL]
                 ELSE [seen EXCEPT !.pc = "history", !.safe = TRUE]]
    /\ UNCHANGED <<ev, chat_messages, messages_list, messages_expiry, now, factsVars, profileVars, storeVars, authVars, ownerVars>>

\* Step 2, lines 51-54: lrange(messages_key, 0, -1) and json.loads of each entry
ReadHistory(r) ==
    /\ req[r].pc = "history"
    /\ \/ req' = [req EXCEPT ![r] = [@ EXCEPT
                     !.pc = "date",
                     !.chat_history = [i \in DOMAIN messages_list |->
                                          JsonLoads(messages_list[i])]]]
       \/ req' = [req EXCEPT ![r] = Raise(r, "redis")]
    /\ UNCHANGED <<ev, chat_messages, messages_list, messages_expiry, now, factsVars, profileVars, storeVars, authVars, ownerVars>>

\* json.dumps(column, indent=2) of a facts column: None, or the text stored in it
json_dumps_column(column) ==
    IF column = None THEN <<"null">> ELSE <<"\"">> \o column \o <<"\"">>

AstrologyContext_resolved(profile) ==
    [planetary |-> json_dumps_column(
                       IF profile.planetary_positions = None
                       THEN json_dumps_half(Doc(DocFor(Payload(profile.birth))))
                       ELSE profile.planetary_positions),
     dasha |-> json_dumps_column(
                       IF profile.dasha_details = None
                       THEN json_dumps_half(Doc(DocFor(Payload(profile.birth))))
                       ELSE profile.dasha_details)]

\* Step 4, lines 70-71: the facts of the prompt are the profile's columns
AstrologyContext(profile) ==
    [planetary |-> json_dumps_column(profile.planetary_positions),
     dasha |-> json_dumps_column(profile.dasha_details)]

\* Steps 3 and 4, lines 57-71: the reference date and the astrology context
ReferenceDate(r) ==
    /\ req[r].pc = "date"
    /\ \E parsed \in DateutilOutcomes :
         LET got == extract_reference_date(req[r].query, Today, parsed)
         IN  req' = [req EXCEPT ![r] =
                 IF got.raised THEN Raise(r, "OverflowError")
                 ELSE [@ EXCEPT !.pc = "primary",
                                !.facts_context =
                                    AstrologyContext(profiles[SessionProfile]),
                                !.reference_date = IF got.value # None THEN got.value
                                                   ELSE strftime(Today)]]
    /\ UNCHANGED <<ev, chat_messages, messages_list, messages_expiry, now, factsVars, profileVars, storeVars, authVars, ownerVars>>

\* Mutant of Generate: a failed generation call is made again.
Generate_retry_on_failure(r, variant, nextpc) ==
    \E reply \in GenerationReplies :
        req' = [req EXCEPT ![r] =
            IF ~reply.ok
            THEN [@ EXCEPT !.prompts = Append(@, variant)]
            ELSE [@ EXCEPT !.pc = nextpc, !.answer = Strip(reply.text),
                           !.prompts = Append(@, variant)]]

\* One generation call with the given prompt variant; answer = text.strip()
Generate(r, variant, nextpc) ==
    \E reply \in GenerationReplies :
        req' = [req EXCEPT ![r] =
            IF ~reply.ok
            THEN [@ EXCEPT !.pc = "raised", !.exception = "generation",
                           !.prompts = Append(@, variant)]
            ELSE [@ EXCEPT !.pc = nextpc, !.answer = Strip(reply.text),
                           !.prompts = Append(@, variant)]]

\* Step 5, lines 94-98: the primary attempt
GeneratePrimary(r) ==
    /\ req[r].pc = "primary"
    /\ Generate(r, "SYSTEM_PROMPT", "output_guard")
    /\ UNCHANGED <<ev, chat_messages, messages_list, messages_expiry, now, factsVars, profileVars, storeVars, authVars, ownerVars>>

\* Mutant of FinalAnswer: the second rejected answer is kept.
FinalAnswer_keep(answer, valid, reference_date) == answer

\* Mutant of FinalAnswer: the template leaves the reference date out.
FinalAnswer_no_date(answer, valid, reference_date) ==
    IF ~valid THEN Template(<<>>) ELSE answer

\* Lines 112-118: the final fallback
FinalAnswer(answer, valid, reference_date) ==
    IF ~valid THEN Template(reference_date) ELSE answer

\* Mutant of AfterFirstCheck: the strict retry runs whatever the verdict.
AfterFirstCheck_always_retry(valid) == "fallback"

\* Line 103: where the first verdict leads
AfterFirstCheck(valid) == IF ~valid THEN "fallback" ELSE "save"

\* One evaluate_output call on the current answer
Check(r, reply) ==
    LET out == evaluate_output(req[r].answer, reply)
    IN  [out |-> out,
         rec |-> [req[r] EXCEPT !.valid = out.result,
                     !.checks = Append(@, [answer |-> req[r].answer,
                                           admitted |-> out.result /\ ~out.raised])]]

\* Step 6, lines 101-103 (and 112 when the answer is valid)
OutputGuard(r) ==
    /\ req[r].pc = "output_guard"
    /\ \E reply \in PipelineReplies :
         LET c == Check(r, reply)
         IN  req' = [req EXCEPT ![r] =
                 IF c.out.raised
                 THEN [c.rec EXCEPT !.pc = "raised", !.exception = "classifier"]
                 ELSE [c.rec EXCEPT !.pc = AfterFirstCheck(c.out.result)]]
    /\ UNCHANGED <<ev, chat_messages, messages_list, messages_expiry, now, factsVars, profileVars, storeVars, authVars, ownerVars>>

\* Lines 105-109: the retry with FALLBACK_PROMPT
GenerateFallback(r) ==
    /\ req[r].pc = "fallback"
    /\ Generate(r, "FALLBACK_PROMPT", "output_guard_2")
    /\ UNCHANGED <<ev, chat_messages, messages_list, messages_expiry, now, factsVars, profileVars, storeVars, authVars, ownerVars>>

\* Lines 110-118: the second verdict and the final fallback
OutputGuard2(r) ==
    /\ req[r].pc = "output_guard_2"
    /\ \E reply \in PipelineReplies :
         LET c == Check(r, reply)
         IN  req' = [req EXCEPT ![r] =
                 IF c.out.raised
                 THEN [c.rec EXCEPT !.pc = "raised", !.exception = "classifier"]
                 ELSE [c.rec EXCEPT !.pc = "save",
                          !.answer = FinalAnswer(c.rec.answer, c.out.result,
                                                 c.rec.reference_date)]]
    /\ UNCHANGED <<ev, chat_messages, messages_list, messages_expiry, now, factsVars, profileVars, storeVars, authVars, ownerVars>>

\* The latest created_at of the table (0 when it is empty)
LatestCreatedAt == IF created_at = <<>> THEN 0 ELSE created_at[Len(created_at)]

\* created_at = Column(DateTime, default=datetime.utcnow): the flush reads the
\* clock once for the user row and once more for the agent row. The first
\* read is later than every earlier row; the second read may fall in the same
\* clock tick as the first.
UtcnowReads ==
    { <<LatestCreatedAt + 1, LatestCreatedAt + 1>>,
      <<LatestCreatedAt + 1, LatestCreatedAt + 2>> }

\* Mutant of SaveToDb: a failed commit is swallowed and the request goes on.
SaveToDb_swallow_failure(r) ==
    /\ req[r].pc = "save"
    /\ \/ /\ chat_messages' = chat_messages \o
                 <<Row("user", req[r].query), Row("agent", req[r].answer)>>
          /\ \E reads \in UtcnowReads : created_at' = created_at \o reads
          /\ req' = [req EXCEPT ![r] = [@ EXCEPT !.pc = "push_user", !.committed = TRUE]]
       \/ /\ req' = [req EXCEPT ![r] = [@ EXCEPT !.pc = "push_user"]]
          /\ UNCHANGED <<chat_messages, created_at>>
    /\ UNCHANGED <<ev, messages_list, messages_expiry, now, factsVars, profileVars,
                   conversation, authVars, ownerVars>>

\* Step 7, lines 121-124: db.add_all([user_msg, agent_msg]); db.commit()
SaveToDb(r) ==
    /\ req[r].pc = "save"
    /\ \/ /\ chat_messages' = chat_messages \o
                 <<Row("user", req[r].query), Row("agent", req[r].answer)>>
          /\ \E reads \in UtcnowReads : created_at' = created_at \o reads
          /\ req' = [req EXCEPT ![r] = [@ EXCEPT !.pc = "push_user", !.committed = TRUE]]
       \/ /\ req' = [req EXCEPT ![r] = Raise(r, "db")]
          /\ UNCHANGED <<chat_messages, created_at>>
    /\ UNCHANGED <<ev, messages_list, messages_expiry, now, factsVars, profileVars,
                   conversation, authVars, ownerVars>>

\* Mutant of Rpush: the entry is pushed at the head of the list (lpush).
Rpush_at_head(r, entry, nextpc) ==
    \/ /\ messages_list' = <<JsonDumps(entry)>> \o messages_list
       /\ messages_expiry' = IF messages_list = <<>> THEN -1 ELSE messages_expiry
       /\ req' = [req EXCEPT ![r] = [@ EXCEPT !.pc = nextpc, !.pushed = @ + 1]]
    \/ /\ req' = [req EXCEPT ![r] = Raise(r, "redis")]
       /\ UNCHANGED <<messages_list, messages_expiry>>

\* rpush on the key: a key that did not exist is created without expiry
Rpush(r, entry, nextpc) ==
    \/ /\ messages_list' = Append(messages_list, JsonDumps(entry))
       /\ messages_expiry' = IF messages_list = <<>> THEN -1 ELSE messages_expiry
       /\ req' = [req EXCEPT ![r] = [@ EXCEPT !.pc = nextpc, !.pushed = @ + 1]]
    \/ /\ req' = [req EXCEPT ![r] = Raise(r, "redis")]
       /\ UNCHANGED <<messages_list, messages_expiry>>

\* Step 8, line 127
PushUser(r) ==
    /\ req[r].pc = "push_user"
    /\ Rpush(r, Message("user", req[r].query), "push_agent")
    /\ UNCHANGED <<ev, chat_messages, now, factsVars, profileVars, storeVars, authVars, ownerVars>>

\* Line 128
PushAgent(r) ==
    /\ req[r].pc = "push_agent"
    /\ Rpush(r, Message("agent", req[r].answer), "expire")
    /\ UNCHANGED <<ev, chat_messages, now, factsVars, profileVars, storeVars, authVars, ownerVars>>

\* Lines 129-131: expire(messages_key, 30 days), then return answer
ExpireAndReturn(r) ==
    /\ req[r].pc = "expire"
    /\ \/ /\ messages_expiry' = IF messages_list # <<>> THEN now + MESSAGES_TTL
                                ELSE messages_expiry
          /\ req' = [req EXCEPT ![r] = [@ EXCEPT !.pc = "returned",
                                                   !.result = req[r].answer]]
       \/ /\ req' = [req EXCEPT ![r] = Raise(r, "redis")]
          /\ UNCHANGED messages_expiry
    /\ UNCHANGED <<ev, chat_messages, messages_list, now, factsVars, profileVars, storeVars, authVars, ownerVars>>

Step(r) ==
    \/ InputGuard(r)
    \/ ReadHistory(r)
    \/ ReferenceDate(r)
    \/ GeneratePrimary(r)
    \/ OutputGuard(r)
    \/ GenerateFallback(r)
    \/ OutputGuard2(r)
    \/ SaveToDb(r)
    \/ PushUser(r)
    \/ PushAgent(r)
    \/ ExpireAndReturn(r)

Next == \E r \in SerialRequests : Start(r) \/ Step(r)

Spec == Init /\ [][Next]_vars

\* The query of each of the two requests in flight
InFlightQuery(r) ==
    IF r = 1 THEN <<"c","a","r","e","e","r">>
    ELSE <<"n","e","x","t"," ","2"," ","w","e","e","k","s">>

\* Request r enters generate_response once, request 1 first
StartInFlight(r) ==
    /\ req[r].pc = "idle"
    /\ \A k \in 1..(r - 1) : req[k].pc # "idle"
    /\ Enter(r, InFlightQuery(r))
    /\ UNCHANGED <<ev, chat_messages, messages_list, messages_expiry, now, factsVars, profileVars, storeVars, authVars, ownerVars>>

\* Two ask_query requests on one session, each a coroutine of the event loop:
\* they interleave at every await, and nothing in generate_response makes one
\* wait for the other
NextConcurrent == \E r \in Requests : StartInFlight(r) \/ Step(r)

SpecConcurrent == InitFacts /\ [][NextConcurrent]_vars

\* ------------------------------------------------------- routes/chat.py
\* The orders a query with order_by(ChatMessage.created_at.asc()) can return the
\* rows in: ascending in created_at, rows with equal created_at in any order
Ascending(order) ==
    \A i \in 1..(Len(order) - 1) : created_at[order[i]] <= created_at[order[i + 1]]

InsertAt(order, k, row) ==
    SubSeq(order, 1, k - 1) \o <<row>> \o SubSeq(order, k, Len(order))

RECURSIVE OrdersOf(_)
OrdersOf(n) ==
    IF n = 0 THEN { <<>> }
    ELSE { order \in { InsertAt(o, k, n) : o \in OrdersOf(n - 1), k \in 1..n } :
             Ascending(order) }

AscendingOrders == OrdersOf(Len(created_at))

\* limit: Query(20, ge=1, le=100); offset: Query(0, ge=0)
Limits == {1, 20}

Offsets == {0, 1}

Min(a, b) == IF a < b THEN a ELSE b

\* get_full_conversation, lines 170-195; the client reads the conversation
\* between its queries, and one read is followed
GetFullConversation(limit, offset) ==
    /\ ~conversation.read
    /\ \A r \in Requests : req[r].pc \in {"idle", "returned", "raised"}
    /\ \E order \in AscendingOrders :
         LET total == Len(chat_messages)
             last  == Min(offset + limit, total)
         IN conversation' =
               [read |-> TRUE, total |-> total, limit |-> limit, offset |-> offset,
                rows |-> [i \in 1..(IF last > offset THEN last - offset ELSE 0) |->
                            [sender |-> chat_messages[order[offset + i]].sender,
                             message |-> chat_messages[order[offset + i]].message,
                             timestamp |-> created_at[order[offset + i]]]]]
    /\ UNCHANGED <<evVars, pipeVars, now, factsVars, profileVars, created_at,
                   authVars, ownerVars>>

\* -------------------------------------------------------- fetch_divine_data
\* Redis drops a key once its time to live has run out
Live(cache, time) ==
    [k \in {key \in DOMAIN cache : cache[key].expires_at > time} |-> cache[k]]

\* redis.get(key): the stored text, or None when the key does not exist
RedisGet(key) == IF key \in DOMAIN astro_cache THEN astro_cache[key].text ELSE None

\* redis.setex(key, seconds, text) at the current time
RedisSetex(key, seconds, text) ==
    [k \in DOMAIN astro_cache \cup {key} |->
        IF k = key THEN [text |-> text, expires_at |-> now + seconds]
        ELSE astro_cache[k]]

\* An exception leaves fetch_divine_data; the slot keeps what it had received
Raised(call, name) ==
    [IdleFetch EXCEPT !.pc = "raised", !.profile = call.profile,
                      !.payload = call.payload,
                      !.planetary = call.planetary, !.dasha = call.dasha,
                      !.calls = call.calls, !.exception = name]

FetchRaise(f, name) == fetch' = [fetch EXCEPT ![f] = Raised(fetch[f], name)]

\* fetch_divine_data(profile) is entered with a profile object whose birth
\* attributes the caller loaded (lines 10-16)
FetchEnter(f, profile, birth) ==
    /\ fetch[f].pc \in {"idle", "returned", "raised"}
    /\ fetch' = [fetch EXCEPT ![f] = [IdleFetch EXCEPT !.pc = "get",
                                                       !.profile = profile,
                                                       !.payload = Payload(birth)]]
    /\ UNCHANGED <<evVars, pipeVars, storeVars, authVars, ownerVars, now, astro_cache, resolved, ticks>>

\* A caller enters fetch_divine_data with the profile as stored
FetchStart(f, profile) ==
    /\ FetchEnter(f, profile, profiles[profile].birth)
    /\ UNCHANGED profileVars

\* cached = await redis.get(cache_key); if cached: return json.loads(cached)
FetchGet(f) ==
    /\ fetch[f].pc = "get"
    /\ LET p      == fetch[f].profile
           cached == RedisGet(CacheKey(p))
           fresh  == resolved[p].known /\ now < resolved[p].at + SixHours
           seen   == [fetch[f] EXCEPT !.fresh = fresh,
                                      !.expected = IF fresh THEN resolved[p].value
                                                   ELSE NoResult]
       IN \/ fetch' = [fetch EXCEPT ![f] =
                          IF CacheHit(cached)
                          THEN [seen EXCEPT !.pc = "returned", !.hit = TRUE,
                                            !.result = json_loads(cached)]
                          ELSE [seen EXCEPT !.pc = "post_planetary"]]
          \/ FetchRaise(f, "redis")
    /\ UNCHANGED <<evVars, pipeVars, profileVars, storeVars, authVars, ownerVars, now, astro_cache, resolved, ticks>>

\* Mutant of PostPlanetary: a post that failed in transport is made again.
PostPlanetary_retry(f) ==
    /\ fetch[f].pc = "post_planetary"
    /\ LET called == [fetch[f] EXCEPT !.calls = Append(@, "planetary-positions")]
       IN \/ \E response \in ResponsesTo(fetch[f].payload) :
                fetch' = [fetch EXCEPT ![f] = [called EXCEPT !.pc = "post_dasha",
                                                             !.planetary = response]]
          \/ fetch' = [fetch EXCEPT ![f] = called]
    /\ UNCHANGED <<evVars, pipeVars, profileVars, storeVars, authVars, ownerVars, now, astro_cache, resolved, ticks>>

\* planetary = await client.post(f"{BASE_URL}/planetary-positions", ...)
PostPlanetary(f) ==
    /\ fetch[f].pc = "post_planetary"
    /\ LET called == [fetch[f] EXCEPT !.calls = Append(@, "planetary-positions")]
       IN \/ \E response \in ResponsesTo(fetch[f].payload) :
                fetch' = [fetch EXCEPT ![f] = [called EXCEPT !.pc = "post_dasha",
                                                             !.planetary = response]]
          \/ fetch' = [fetch EXCEPT ![f] = Raised(called, "httpx")]
    /\ UNCHANGED <<evVars, pipeVars, profileVars, storeVars, authVars, ownerVars, now, astro_cache, resolved, ticks>>

\* dasha = await client.post(f"{BASE_URL}/vimshottari-dasha", ...), then the
\* result dictionary of lines 52-57 is built
PostDasha(f) ==
    /\ fetch[f].pc = "post_dasha"
    /\ LET called == [fetch[f] EXCEPT !.calls = Append(@, "vimshottari-dasha")]
       IN \/ \E response \in ResponsesTo(fetch[f].payload) :
                fetch' = [fetch EXCEPT ![f] =
                    IF HalfRaises(fetch[f].planetary) \/ HalfRaises(response)
                    THEN Raised([called EXCEPT !.dasha = response], "JSONDecodeError")
                    ELSE [called EXCEPT !.pc = "setex", !.dasha = response,
                                        !.result = Result(HalfOf(fetch[f].planetary),
                                                          HalfOf(response))]]
          \/ fetch' = [fetch EXCEPT ![f] = Raised(called, "httpx")]
    /\ UNCHANGED <<evVars, pipeVars, profileVars, storeVars, authVars, ownerVars, now, astro_cache, resolved, ticks>>

\* await redis.setex(cache_key, 21600, json.dumps(result)); return result
Setex(f) ==
    /\ fetch[f].pc = "setex"
    /\ LET p == fetch[f].profile
       IN \/ /\ astro_cache' = RedisSetex(CacheKey(p), FACTS_TTL,
                                           json_dumps(fetch[f].result))
             /\ fetch' = [fetch EXCEPT ![f].pc = "returned",
                                       ![f].planetary = NoResponse,
                                       ![f].dasha = NoResponse]
             /\ resolved' = [resolved EXCEPT ![p] =
                               [known |-> TRUE, at |-> now,
                                value |-> fetch[f].result]]
          \/ /\ FetchRaise(f, "redis")
             /\ UNCHANGED <<astro_cache, resolved>>
    /\ UNCHANGED <<evVars, pipeVars, profileVars, storeVars, authVars, ownerVars, now, ticks>>

\* The messages key is gone once the expiry set on it has passed
MessagesExpired(time) == messages_expiry # -1 /\ messages_expiry <= time

\* Time passes; keys whose time to live ran out are gone
Tick(d) ==
    /\ ticks < MaxTicks
    /\ ticks' = ticks + 1
    /\ now' = now + d
    /\ astro_cache' = Live(astro_cache, now + d)
    /\ messages_list' = IF MessagesExpired(now + d) THEN <<>> ELSE messages_list
    /\ messages_expiry' = IF MessagesExpired(now + d) THEN -1 ELSE messages_expiry
    /\ UNCHANGED <<evVars, req, chat_messages, profileVars, storeVars, authVars, ownerVars, fetch, resolved>>

FetchStep(f) ==
    \/ FetchGet(f)
    \/ PostPlanetary(f)
    \/ PostDasha(f)
    \/ Setex(f)

NextFacts ==
    \/ \E f \in Fetchers : (\E profile \in Profiles : FetchStart(f, profile)) \/ FetchStep(f)
    \/ \E d \in {1, FACTS_TTL - 1} : Tick(d)

SpecFacts == InitFacts /\ [][NextFacts]_vars

\* ------------------------------------------------- routes/profile.py
\* The coroutine slot the profile routes call fetch_divine_data in
RouteFetcher == 1

\* serialize_profile: json.loads of a column that is set, else None
serialize_profile(profile) ==
    Result(IF profile.planetary_positions # None
           THEN json_loads_half(profile.planetary_positions) ELSE Null,
           IF profile.dasha_details # None
           THEN json_loads_half(profile.dasha_details) ELSE Null)

RouteIdle == route.pc \in {"idle", "returned", "raised"}

\* patch_profile, lines 209-222: the fields sent are set on the profile and
\* committed, then fetch_divine_data(profile) is entered
PatchProfile(p, birth) ==
    /\ RouteIdle
    /\ profiles' = [profiles EXCEPT ![p].birth = birth]
    /\ route' = [IdleRoute EXCEPT !.pc = "fetch", !.fn = "patch_profile",
                                  !.profile = p,
                                  !.edited = (birth # profiles[p].birth),
                                  !.had_entry = (CacheKey(p) \in DOMAIN astro_cache)]
    /\ FetchEnter(RouteFetcher, p, birth)

\* refresh_astro_data, lines 256-263: fetch_divine_data(profile) is entered
RefreshAstroData(p) ==
    /\ RouteIdle
    /\ route' = [IdleRoute EXCEPT !.pc = "fetch", !.fn = "refresh_astro_data",
                                  !.profile = p,
                                  !.had_entry = (CacheKey(p) \in DOMAIN astro_cache)]
    /\ FetchEnter(RouteFetcher, p, profiles[p].birth)
    /\ UNCHANGED profiles

\* Lines 223-228 and 264-269: the facts are stored on the profile, committed,
\* and the serialized profile is returned
StoreFacts ==
    /\ route.pc = "fetch"
    /\ fetch[RouteFetcher].pc = "returned"
    /\ LET divine_data == fetch[RouteFetcher].result
           stored == [profiles[route.profile] EXCEPT
                        !.planetary_positions =
                            json_dumps_half(divine_data.planetary_positions),
                        !.dasha_details = json_dumps_half(divine_data.dasha_details)]
       IN /\ profiles' = [profiles EXCEPT ![route.profile] = stored]
          /\ route' = [route EXCEPT !.pc = "returned",
                                    !.response = serialize_profile(stored)]
    /\ UNCHANGED <<evVars, pipeVars, storeVars, authVars, ownerVars, now, factsVars>>

\* An exception of fetch_divine_data leaves the route
RouteRaise ==
    /\ route.pc = "fetch"
    /\ fetch[RouteFetcher].pc = "raised"
    /\ route' = [route EXCEPT !.pc = "raised",
                              !.exception = fetch[RouteFetcher].exception]
    /\ UNCHANGED <<evVars, pipeVars, storeVars, authVars, ownerVars, now, factsVars, profiles>>

NextProfile ==
    \/ \E p \in Profiles : (\E birth \in BirthAttrs : PatchProfile(p, birth))
                               \/ RefreshAstroData(p)
    \/ FetchStep(RouteFetcher)
    \/ StoreFacts
    \/ RouteRaise
    \/ \E d \in {1, FACTS_TTL - 1} : Tick(d)

SpecProfile == InitFacts /\ [][NextProfile]_vars

\* Time matters to a request only where it touches the Redis list: time that
\* passes elsewhere in a request has the effect of time passing before it
TimeMatters ==
    \A r \in Requests :
        req[r].pc \in {"idle", "returned", "raised", "push_user", "push_agent", "expire"}

\* The session over time: its queries one after the other and time passing,
\* until its conversation is read
NextStore ==
    \/ /\ ~conversation.read
       /\ \/ \E r \in SerialRequests : Start(r) \/ Step(r)
          \/ TimeMatters /\ Tick(MESSAGES_TTL)
    \/ \E limit \in Limits, offset \in Offsets : GetFullConversation(limit, offset)

SpecStore == InitFacts /\ [][NextStore]_vars

\* ------------------------------------------------------- routes/auth.py
\* recent_count >= 10, line 51
RATE_LIMIT == 10

\* timedelta(minutes=10), line 47
OTP_WINDOW == 10 * 60

\* expiry_time(minutes=10), otp_handler.py
OTP_TTL == 10 * 60

\* ACCESS_TOKEN_EXPIRE_MINUTES and REFRESH_TOKEN_EXPIRE_DAYS of config.py, seconds
ACCESS_TOKEN_EXPIRE == 30 * 60

REFRESH_TOKEN_EXPIRE == 7 * 24 * 60 * 60

\* OTP rows the rate-limit specification inserts at most
MaxOtps == 11

\* OTP rows the second address of the rate-limit specification inserts at most
MaxOtherOtps == 2

\* OTP rows the login specification inserts at most
MaxLogins == 2

\* Logins the login specification lets one OTP row serve at most
MaxVerified == 2

Phones == {"p1", "p2"}

\* generate_otp(): str(random.randint(1000, 9999))
Codes == {"1111", "2222"}

IPs == {"ip1", "ip2"}

\* hashlib.sha256(text.encode()).hexdigest(): no two texts with one digest
sha256(text) == [sha256 |-> text]

\* The rows the rate-limit query of lines 48-50 counts
RecentOtps(ip_address) ==
    {i \in DOMAIN otps : /\ otps[i].ip_address = ip_address
                         /\ otps[i].created_at >= now - OTP_WINDOW}

\* An OTP row; `verified` counts the verify-otp requests that issued tokens on it
OtpRow(phone, code, ip_address) ==
    [phone |-> phone, code |-> code, ip_address |-> ip_address,
     created_at |-> now, expires_at |-> now + OTP_TTL, verified |-> 0]

\* Mutant of SendOtp: the limit test is recent_count > 10.
SendOtp_off_by_one(ip_address, phone, code, delivered) ==
    /\ IF Cardinality(RecentOtps(ip_address)) > RATE_LIMIT
       THEN /\ auth' = AuthReply("send_otp", 429, NoToken, NoToken, NoToken)
            /\ UNCHANGED otps
       ELSE /\ otps' = Append(otps, OtpRow(phone, code, ip_address))
            /\ auth' = AuthReply("send_otp", IF delivered THEN 200 ELSE 400,
                                 NoToken, NoToken, NoToken)
    /\ UNCHANGED <<evVars, pipeVars, now, factsVars, profileVars, storeVars,
                   users, refresh_tokens, revoked, ownerVars>>

\* send_otp, lines 42-68: the row is committed before deliver_otp is awaited,
\* and a delivery that failed answers 400
SendOtp(ip_address, phone, code, delivered) ==
    /\ IF Cardinality(RecentOtps(ip_address)) >= RATE_LIMIT
       THEN /\ auth' = AuthReply("send_otp", 429, NoToken, NoToken, NoToken)
            /\ UNCHANGED otps
       ELSE /\ otps' = Append(otps, OtpRow(phone, code, ip_address))
            /\ auth' = AuthReply("send_otp", IF delivered THEN 200 ELSE 400,
                                 NoToken, NoToken, NoToken)
    /\ UNCHANGED <<evVars, pipeVars, now, factsVars, profileVars, storeVars,
                   users, refresh_tokens, revoked, ownerVars>>

\* The rows .order_by(OTP.created_at.desc()).first() can return for the filter
\* of lines 75-80: a matching row with the latest created_at
LatestOtps(phone, code) ==
    LET matching == {i \in DOMAIN otps : otps[i].phone = phone /\ otps[i].code = code}
    IN  {i \in matching : \A k \in matching : otps[k].created_at <= otps[i].created_at}

\* verify_otp, lines 73-109. The user row is committed at line 93 before the
\* refresh token row is added; RefreshToken.token is unique (models.py:59), so
\* the commit of line 107 raises when the same token text is already stored.
VerifyOtp(phone, code) ==
    /\ IF LatestOtps(phone, code) = {}
       THEN /\ auth' = AuthReply("verify_otp", 400, NoToken, NoToken, NoToken)
            /\ UNCHANGED <<users, otps, refresh_tokens>>
       ELSE \E i \in LatestOtps(phone, code) :
            IF now > otps[i].expires_at
            THEN /\ auth' = AuthReply("verify_otp", 400, NoToken, NoToken, NoToken)
                 /\ UNCHANGED <<users, otps, refresh_tokens>>
            ELSE LET access_token  == jwt_encode(phone, now + ACCESS_TOKEN_EXPIRE)
                     refresh_token == jwt_encode(phone, now + REFRESH_TOKEN_EXPIRE)
                 IN  /\ users' = users \cup {phone}
                     /\ IF \E rt \in refresh_tokens : rt.token = sha256(refresh_token)
                        THEN /\ auth' = AuthReply("verify_otp", 500, NoToken, NoToken, NoToken)
                             /\ UNCHANGED <<otps, refresh_tokens>>
                        ELSE /\ refresh_tokens' = refresh_tokens \cup
                                    {[user_id |-> phone, token |-> sha256(refresh_token),
                                      expires_at |-> now + REFRESH_TOKEN_EXPIRE]}
                             /\ otps' = [otps EXCEPT ![i].verified = @ + 1]
                             /\ auth' = AuthReply("verify_otp", 200, NoToken,
                                                  access_token, refresh_token)
    /\ UNCHANGED <<evVars, pipeVars, now, factsVars, profileVars, storeVars,
                   revoked, ownerVars>>

\* refresh_token, lines 114-122
Refresh(token) ==
    /\ LET found == {rt \in refresh_tokens : rt.token = sha256(token)}
       IN  IF found = {} \/ \E rt \in found : now > rt.expires_at
           THEN auth' = AuthReply("refresh", 401, token, NoToken, NoToken)
           ELSE \E rt \in found :
                    auth' = AuthReply("refresh", 200, token,
                                      jwt_encode(rt.user_id, now + ACCESS_TOKEN_EXPIRE),
                                      NoToken)
    /\ UNCHANGED <<evVars, pipeVars, now, factsVars, profileVars, storeVars,
                   users, otps, refresh_tokens, revoked, ownerVars>>

\* logout, lines 127-134
Logout(token) ==
    /\ LET deleted == {rt \in refresh_tokens : rt.token = sha256(token)}
       IN  /\ refresh_tokens' = refresh_tokens \ deleted
           /\ IF deleted = {}
              THEN /\ auth' = AuthReply("logout", 400, token, NoToken, NoToken)
                   /\ UNCHANGED revoked
              ELSE /\ auth' = AuthReply("logout", 200, token, NoToken, NoToken)
                   /\ revoked' = revoked \cup {token}
    /\ UNCHANGED <<evVars, pipeVars, now, factsVars, profileVars, storeVars,
                   users, otps, ownerVars>>

\* The rate limit: requests from two addresses for one phone, most of them from
\* the first address
RateSendOtp ==
    \E ip_address \in IPs, delivered \in BOOLEAN :
        /\ Len(otps) < MaxOtps \/ Cardinality(RecentOtps(ip_address)) >= RATE_LIMIT
        /\ ip_address = "ip2" =>
              Cardinality({i \in DOMAIN otps : otps[i].ip_address = "ip2"}) < MaxOtherOtps
        /\ SendOtp(ip_address, "p1", "1111", delivered)

NextRate ==
    \/ RateSendOtp
    \/ \E d \in {1, OTP_WINDOW} : Tick(d)

SpecRate == InitFacts /\ [][NextRate]_vars

\* Logins: the refresh tokens a client can present are those it was given, and
\* one that was never issued
LoginSendOtp ==
    /\ Len(otps) < MaxLogins
    /\ \E phone \in Phones, code \in Codes : SendOtp("ip1", phone, code, TRUE)

IssuedTokens == {rt.token.sha256 : rt \in refresh_tokens} \cup revoked

PresentedTokens == IssuedTokens \cup {jwt_encode("p1", 1)}

LoginVerifyOtp ==
    /\ \A i \in DOMAIN otps : otps[i].verified < MaxVerified
    /\ \E phone \in Phones, code \in Codes : VerifyOtp(phone, code)

NextAuth ==
    \/ LoginSendOtp
    \/ LoginVerifyOtp
    \/ \E token \in PresentedTokens : Refresh(token) \/ Logout(token)
    \/ \E d \in {1, OTP_TTL + 1, REFRESH_TOKEN_EXPIRE + 1} : Tick(d)

SpecAuth == InitFacts /\ [][NextAuth]_vars

\* ------------------------------------- routes/chat.py, routes/profile.py
\* Sessions and message rows the ownership specification creates at most
MaxSessions == 2

MaxRows == 4

\* current_user.id, as get_current_user (lines 23-37) resolves it from the token
UserIds == {"u1", "u2"}

SessionIds == 1..MaxSessions

RowIds == 1..MaxRows

AskedQueries == {"career", "health"}

\* How the call of generate_response ends: a reply with both turns saved, a
\* refusal that saves nothing, an exception before the commit of lines 121-124,
\* or one after it
Outcomes == {"answered", "refused", "failed", "failed_late"}

\* Profile.id == profile_id, Profile.user_id == current_user.id
OwnedProfile(user, p) ==
    profile_table[p].state = "live" /\ profile_table[p].user_id = user

\* ChatSession.id == session_id, ChatSession.user_id == current_user.id
OwnedSession(user, session_id) ==
    session_id \in DOMAIN chat_sessions /\ chat_sessions[session_id].user_id = user

\* ChatMessage.session_id == session.id
RowsOf(session_id) ==
    {i \in DOMAIN message_rows : message_rows[i].session_id = session_id}

\* A chat_messages row; `by` is the user whose request wrote it and `ref` the
\* row a follow-up quoted (0 when none)
MessageRow(session_id, sender, message, by, ref) ==
    [session_id |-> session_id, sender |-> sender, message |-> message,
     by |-> by, ref |-> ref]

\* create_profile, lines 105-123: the row gets a fresh id and the caller's id
CreateProfile(user, p) ==
    /\ profile_table[p].state = "none"
    /\ \A k \in Profiles : k < p => profile_table[k].state # "none"
    /\ profile_table' = [profile_table EXCEPT ![p] = [state |-> "live", user_id |-> user]]
    /\ chat' = ChatReply("create_profile", user, 0, 200, {})
    /\ UNCHANGED <<evVars, pipeVars, now, factsVars, profileVars, storeVars, authVars,
                   chat_sessions, message_rows>>

\* patch_profile, lines 202-228: the fields of ProfileRequest (39-49) are set,
\* and user_id is not one of them
PatchOwnedProfile(user, p) ==
    /\ chat' = ChatReply("patch_profile", user, 0,
                         IF OwnedProfile(user, p) THEN 200 ELSE 404, {})
    /\ UNCHANGED <<evVars, pipeVars, now, factsVars, profileVars, storeVars, authVars,
                   profile_table, chat_sessions, message_rows>>

\* Mutant of DeleteProfile: the row goes even when sessions refer to it.
DeleteProfile_with_sessions(user, p) ==
    /\ IF ~OwnedProfile(user, p)
       THEN /\ chat' = ChatReply("delete_profile", user, 0, 404, {})
            /\ UNCHANGED profile_table
       ELSE /\ profile_table' = [profile_table EXCEPT ![p].state = "deleted"]
            /\ chat' = ChatReply("delete_profile", user, 0, 200, {})
    /\ UNCHANGED <<evVars, pipeVars, now, factsVars, profileVars, storeVars, authVars,
                   chat_sessions, message_rows>>

\* delete_profile, lines 231-245. Profile.chat_sessions has no cascade
\* (models.py:40), so db.delete sets the profile_id of every session of the
\* profile to NULL; the column is NOT NULL (models.py:72) and the commit of
\* line 244 raises IntegrityError, which leaves the tables as they were.
DeleteProfile(user, p) ==
    /\ IF ~OwnedProfile(user, p)
       THEN /\ chat' = ChatReply("delete_profile", user, 0, 404, {})
            /\ UNCHANGED profile_table
       ELSE IF \E k \in DOMAIN chat_sessions : chat_sessions[k].profile_id = p
       THEN /\ chat' = ChatReply("delete_profile", user, 0, 500, {})
            /\ UNCHANGED profile_table
       ELSE /\ profile_table' = [profile_table EXCEPT ![p].state = "deleted"]
            /\ chat' = ChatReply("delete_profile", user, 0, 200, {})
    /\ UNCHANGED <<evVars, pipeVars, now, factsVars, profileVars, storeVars, authVars,
                   chat_sessions, message_rows>>

\* start_chat, lines 43-64
StartChat(user, p) ==
    /\ IF ~OwnedProfile(user, p)
       THEN /\ chat' = ChatReply("start_chat", user, 0, 404, {})
            /\ UNCHANGED chat_sessions
       ELSE /\ Len(chat_sessions) < MaxSessions
            /\ chat_sessions' = Append(chat_sessions, [user_id |-> user, profile_id |-> p])
            /\ chat' = ChatReply("start_chat", user, Len(chat_sessions) + 1, 200, {})
    /\ UNCHANGED <<evVars, pipeVars, now, factsVars, profileVars, storeVars, authVars,
                   profile_table, message_rows>>

\* What generate_response(db, session, profile, query) leaves in chat_messages
\* and answers, by the way the call ends
Respond(fn, user, session_id, query, ref, outcome) ==
    LET saved == Append(Append(message_rows,
                     MessageRow(session_id, "user", query, user, ref)),
                     MessageRow(session_id, "agent", "answer", user, 0))
    IN  /\ message_rows' = IF outcome \in {"answered", "failed_late"}
                           THEN saved ELSE message_rows
        /\ chat' = ChatReply(fn, user, session_id,
                             IF outcome \in {"answered", "refused"} THEN 200 ELSE 500, {})

\* Mutant of AskQuery: the session is looked up by its id alone.
AskQuery_any_session(user, session_id, query, outcome) ==
    /\ IF session_id \notin DOMAIN chat_sessions
       THEN /\ chat' = ChatReply("ask_query", user, session_id, 404, {})
            /\ UNCHANGED message_rows
       ELSE /\ Len(message_rows) + 2 <= MaxRows
            /\ Respond("ask_query", user, session_id, query, 0, outcome)
    /\ UNCHANGED <<evVars, pipeVars, now, factsVars, profileVars, storeVars, authVars,
                   profile_table, chat_sessions>>

\* ask_query, lines 70-91
AskQuery(user, session_id, query, outcome) ==
    /\ IF ~OwnedSession(user, session_id)
       THEN /\ chat' = ChatReply("ask_query", user, session_id, 404, {})
            /\ UNCHANGED message_rows
       ELSE IF profile_table[chat_sessions[session_id].profile_id].state # "live"
       THEN /\ chat' = ChatReply("ask_query", user, session_id, 404, {})
            /\ UNCHANGED message_rows
       ELSE /\ Len(message_rows) + 2 <= MaxRows
            /\ Respond("ask_query", user, session_id, query, 0, outcome)
    /\ UNCHANGED <<evVars, pipeVars, now, factsVars, profileVars, storeVars, authVars,
                   profile_table, chat_sessions>>

\* followup_query, lines 97-148: the quoted message is looked up among the rows
\* of the session (lines 119-123) and its text goes into the enriched query
FollowupQuery(user, session_id, message_id, query, outcome) ==
    /\ IF ~OwnedSession(user, session_id)
       THEN /\ chat' = ChatReply("followup_query", user, session_id, 404, {})
            /\ UNCHANGED message_rows
       ELSE IF message_id \notin RowsOf(session_id)
       THEN /\ chat' = ChatReply("followup_query", user, session_id, 404, {})
            /\ UNCHANGED message_rows
       ELSE IF profile_table[chat_sessions[session_id].profile_id].state # "live"
       THEN /\ chat' = ChatReply("followup_query", user, session_id, 404, {})
            /\ UNCHANGED message_rows
       ELSE /\ Len(message_rows) + 2 <= MaxRows
            /\ Respond("followup_query", user, session_id, query, message_id, outcome)
    /\ UNCHANGED <<evVars, pipeVars, now, factsVars, profileVars, storeVars, authVars,
                   profile_table, chat_sessions>>

\* The rows each read route selects: every row of the session for
\* get_full_conversation (lines 154-195, before paging) and
\* summarize_conversation (237-259), the rows whose text matches for
\* search_conversation (201-231)
Selected(fn, session_id, q) ==
    IF fn = "search_conversation"
    THEN {i \in RowsOf(session_id) : message_rows[i].message = q}
    ELSE RowsOf(session_id)

ReadRoutes == {"get_full_conversation", "search_conversation", "summarize_conversation"}

\* get_full_conversation, search_conversation, summarize_conversation
ReadConversation(fn, user, session_id, q) ==
    /\ chat' = IF OwnedSession(user, session_id)
               THEN ChatReply(fn, user, session_id, 200, Selected(fn, session_id, q))
               ELSE ChatReply(fn, user, session_id, 404, {})
    /\ UNCHANGED <<evVars, pipeVars, now, factsVars, profileVars, storeVars, authVars,
                   profile_table, chat_sessions, message_rows>>

NextOwner ==
    \/ \E user \in UserIds, p \in Profiles :
          \/ CreateProfile(user, p)
          \/ PatchOwnedProfile(user, p)
          \/ DeleteProfile(user, p)
          \/ StartChat(user, p)
    \/ \E user \in UserIds, session_id \in SessionIds, query \in AskedQueries,
          outcome \in Outcomes :
          \/ AskQuery(user, session_id, query, outcome)
          \/ \E message_id \in RowIds :
                FollowupQuery(user, session_id, message_id, query, outcome)
    \/ \E fn \in ReadRoutes, user \in UserIds, session_id \in SessionIds,
          q \in AskedQueries :
          ReadConversation(fn, user, session_id, q)

SpecOwner == InitFacts /\ [][NextOwner]_vars

\* ================================================================== claims
Returned(r) == req[r].pc = "returned"

\* The agent answer request r committed to the durable log, and pushed to the cache
LoggedPair(r) == SubSeq(chat_messages, req[r].log_base + 1, req[r].log_base + 2)

CachedPair(r) ==
    [i \in 1..2 |-> JsonLoads(messages_list[req[r].cache_base + i])]

HasLogged(r) == req[r].committed

HasCached(r) == req[r].pushed = 2

LastCheck(r) == req[r].checks[Len(req[r].checks)]

\* text is a generated answer that the last output check admitted
AdmittedAnswer(r, text) ==
    /\ req[r].checks # <<>>
    /\ LastCheck(r).admitted
    /\ LastCheck(r).answer = text

\* text is the template fallback, reached after two rejected answers
TemplateFallback(r, text) ==
    /\ Len(req[r].checks) = 2
    /\ \A i \in 1..2 : ~req[r].checks[i].admitted
    /\ text = Template(req[r].reference_date)

\* C1: generate_response never returns or persists an unadmitted model answer:
\* the returned text is the refusal, a generated answer that evaluate_output
\* admitted, or the template fallback; the agent turn written to the durable log
\* and to the cache is an admitted answer or the template.
C1_NoUnadmittedAnswer ==
    \A r \in Requests :
        /\ Returned(r) =>
              \/ ~req[r].safe /\ req[r].result = REFUSAL
              \/ req[r].safe /\ AdmittedAnswer(r, req[r].result)
              \/ req[r].safe /\ TemplateFallback(r, req[r].result)
        /\ HasLogged(r) =>
              LET m == LoggedPair(r)[2].message
              IN  AdmittedAnswer(r, m) \/ TemplateFallback(r, m)
        /\ HasCached(r) =>
              LET m == CachedPair(r)[2].content
              IN  AdmittedAnswer(r, m) \/ TemplateFallback(r, m)

\* C1 witness: a rejected primary answer, then a different admitted retry answer
\* that is returned and logged.
C1_Witness ==
    \E r \in Requests :
        /\ Returned(r)
        /\ Len(req[r].checks) = 2
        /\ ~req[r].checks[1].admitted
        /\ req[r].checks[2].admitted
        /\ req[r].result = req[r].checks[2].answer
        /\ req[r].result # req[r].checks[1].answer
        /\ HasLogged(r)

\* C2: a rejected query returns the refusal and nothing else happens: no
\* generation call, no output check, and neither the durable log nor the cache
\* list (nor its expiry) differs from what it was on entry.
C2_RefusalIsTerminal ==
    \A r \in Requests :
        /\ (Returned(r) /\ ~req[r].safe) =>
              /\ req[r].result = REFUSAL
              /\ req[r].prompts = <<>>
              /\ req[r].checks = <<>>
              /\ Len(chat_messages) = req[r].log_base
              /\ Len(messages_list) = req[r].cache_base
        /\ ~req[r].safe => req[r].pc \in {"idle", "input_guard", "returned", "raised"}

\* C2 witness: the classifier (not the denylist) refuses a query of a session
\* that already holds an exchange.
C2_Witness ==
    \E r \in Requests :
        /\ Returned(r)
        /\ ~req[r].safe
        /\ req[r].classified = 1
        /\ req[r].result = REFUSAL
        /\ Len(chat_messages) = 2
        /\ Len(messages_list) = 2

\* C3: at most one retry: the primary prompt is sent first and once, the strict
\* prompt at most once and only after evaluate_output rejected the primary
\* answer; never more than two generation calls or two output checks; an answered
\* admitted query made its primary call.
C3_AtMostOneRetry ==
    \A r \in Requests :
        LET q == req[r]
        IN  /\ Len(q.prompts) <= 2
            /\ Len(q.checks) <= 2
            /\ Len(q.checks) <= Len(q.prompts)
            /\ Len(q.prompts) >= 1 => q.prompts[1] = "SYSTEM_PROMPT"
            /\ Len(q.prompts) = 2 =>
                  /\ q.prompts[2] = "FALLBACK_PROMPT"
                  /\ ~q.checks[1].admitted
            /\ (Returned(r) /\ q.safe) => Len(q.prompts) >= 1
            /\ ~q.safe => q.prompts = <<>>

\* C3 witness: a returned run that made both calls and both checks.
C3_Witness ==
    \E r \in Requests :
        /\ Returned(r)
        /\ req[r].prompts = <<"SYSTEM_PROMPT", "FALLBACK_PROMPT">>
        /\ Len(req[r].checks) = 2

BothRejected(r) ==
    /\ Len(req[r].checks) = 2
    /\ ~req[r].checks[1].admitted
    /\ ~req[r].checks[2].admitted

\* C4: when both answers are rejected the returned answer is the template holding
\* the resolved reference date; the evaluator is not run on it, no third
\* generation call is made, and the template is the agent turn in the durable log
\* and in the cache list.
C4_TemplateAfterTwoRejections ==
    \A r \in Requests :
        (Returned(r) /\ BothRejected(r)) =>
            /\ req[r].result = Template(req[r].reference_date)
            /\ Len(req[r].reference_date) = 10
            /\ Contains(req[r].result, req[r].reference_date)
            /\ Len(req[r].prompts) = 2
            /\ \A i \in 1..2 : req[r].checks[i].answer # req[r].result
            /\ LoggedPair(r) = <<Row("user", req[r].query), Row("agent", req[r].result)>>
            /\ HasCached(r)
            /\ CachedPair(r) = <<Message("user", req[r].query),
                                 Message("agent", req[r].result)>>

\* C4 witness: two rejections on a query whose reference date was extracted.
C4_Witness ==
    \E r \in Requests :
        /\ Returned(r)
        /\ BothRejected(r)
        /\ req[r].reference_date # strftime(Today)
        /\ LoggedPair(r)[2].message = Template(req[r].reference_date)

ExternalFailures == {"classifier", "generation", "redis", "db"}

\* C5 (as claimed): an admitted run in which every external call returned ends
\* by returning exactly one answer (admitted primary, admitted retry, or
\* template), never none, with exactly one (user, agent) pair appended for it.
C5_ExactlyOneAnswer ==
    \A r \in Requests :
        (req[r].safe /\ req[r].pc \in {"returned", "raised"}
             /\ req[r].exception \notin ExternalFailures) =>
            /\ Returned(r)
            /\ AdmittedAnswer(r, req[r].result) \/ TemplateFallback(r, req[r].result)
            /\ Len(chat_messages) = req[r].log_base + 2
            /\ LoggedPair(r) = <<Row("user", req[r].query), Row("agent", req[r].result)>>

\* C6: a query that contains a denylist keyword is rejected by evaluate_query
\* without any call to the classification service.
MentionsDenylisted(text) ==
    \E k \in DOMAIN BLOCKED_KEYWORDS :
        \E i \in 0..(Len(text) - Len(BLOCKED_KEYWORDS[k])) :
            \A j \in 1..Len(BLOCKED_KEYWORDS[k]) :
                LowerChar(text[i + j]) = BLOCKED_KEYWORDS[k][j]

C6_DenylistFastPath ==
    (ev.fn = "evaluate_query" /\ MentionsDenylisted(ev.text)) =>
        /\ ev.out.result = FALSE
        /\ ev.out.calls = 0
        /\ ~ev.out.raised

\* C6 witness: "lottery numbers" is rejected with no call although the
\* classifier would have answered SAFE.
C6_Witness ==
    /\ ev.fn = "evaluate_query"
    /\ ev.text = <<"l","o","t","t","e","r","y"," ","n","u","m","b","e","r","s">>
    /\ ev.reply = Reply(SAFE)
    /\ ev.out = Outcome(FALSE, 0, FALSE)

\* The reply, trimmed of surrounding whitespace and case-folded, is the SAFE token
IsSafeToken(text) ==
    \E a \in 0..Len(text) :
        /\ a + Len(SAFE) <= Len(text)
        /\ \A i \in 1..a : text[i] \in Whitespace
        /\ \A i \in (a + Len(SAFE) + 1)..Len(text) : text[i] \in Whitespace
        /\ \A j \in 1..Len(SAFE) : UpperChar(text[a + j]) = SAFE[j]

\* C7: both admission checks are fail-closed: a text is admitted only when the
\* classifier was called, returned, and its verdict (the reply stripped and
\* upper-cased) is exactly SAFE; UNSAFE, an empty reply, extra words, any other
\* token or a failed call never admit.
C7_FailClosed ==
    (ev.fn \in {"evaluate_query", "evaluate_output"} /\ ev.out.result) =>
        /\ ev.reply.ok
        /\ ~ev.out.raised
        /\ ev.out.calls = 1
        /\ IsSafeToken(ev.reply.text)

\* C7 witness: a verdict with extra words is rejected by the output check.
C7_Witness ==
    /\ ev.fn = "evaluate_output"
    /\ ev.reply = Reply(<<"S","A","F","E"," ","U","N","S","A","F","E">>)
    /\ ev.out = Outcome(FALSE, 1, FALSE)

\* C8 (as claimed): evaluate_output rejects a text that contains a denylist
\* keyword in a keyword stage, before any classification call.
C8_OutputDenylistStage ==
    (ev.fn = "evaluate_output" /\ MentionsDenylisted(ev.text)) =>
        /\ ev.out.result = FALSE
        /\ ev.out.calls = 0

\* C8 (amended): evaluate_output has no keyword stage: on every text, one that
\* contains a denylist keyword included, it makes exactly one classification
\* call and admits the text exactly when the verdict is SAFE.
C8_OutputClassifierOnly ==
    ev.fn = "evaluate_output" =>
        /\ ev.out.calls = 1
        /\ ev.out.raised = ~ev.reply.ok
        /\ ev.out.result = (ev.reply.ok /\ IsSafeToken(ev.reply.text))

\* C8 witness: an answer that contains "kill" is admitted on a SAFE verdict.
C8_Witness ==
    /\ ev.fn = "evaluate_output"
    /\ ev.text = <<"k","i","l","l"," ","S","a","t","u","r","n">>
    /\ ev.reply = Reply(SAFE)
    /\ ev.out = Outcome(TRUE, 1, FALSE)

\* C9: once facts were written for a profile, every later fetch_divine_data for
\* it that reads the cache less than six hours after that write returns exactly
\* those facts and posts nothing to the external service -- also when the
\* facts are partial or both halves are null.
C9_IdempotentWithinTtl ==
    \A f \in Fetchers :
        fetch[f].fresh =>
            /\ fetch[f].pc = "returned"
            /\ fetch[f].calls = <<>>
            /\ fetch[f].result = fetch[f].expected

\* A resolve at the last second of the window that returned cached facts with
\* both halves null
C9_Witness ==
    \E f \in Fetchers :
        /\ fetch[f].fresh /\ fetch[f].pc = "returned"
        /\ fetch[f].result = Result(Null, Null)
        /\ resolved[fetch[f].profile].at + SixHours - 1 = now

Endpoints == <<"planetary-positions", "vimshottari-dasha">>

\* The half the result must hold for a response, by its status
StatusMapped(response, half) ==
    IF response.status = 200 THEN ~half.null /\ half.doc = response.body
    ELSE half = Null

C10_MissState ==
    \A f \in Fetchers :
        /\ (fetch[f].pc = "setex" \/ (fetch[f].pc = "returned" /\ ~fetch[f].hit)) =>
              fetch[f].calls = Endpoints
        /\ fetch[f].pc = "setex" =>
              /\ StatusMapped(fetch[f].planetary, fetch[f].result.planetary_positions)
              /\ StatusMapped(fetch[f].dasha, fetch[f].result.dasha_details)
        /\ (fetch[f].pc = "raised" /\ fetch[f].calls = Endpoints
                /\ fetch[f].planetary.status # 200 /\ fetch[f].dasha.status \notin {0, 200}) =>
              fetch[f].exception = "redis"

C10_MissReturn ==
    \A f \in Fetchers :
        (fetch[f].pc = "setex" /\ fetch'[f].pc = "returned") =>
            LET key == CacheKey(fetch[f].profile)
            IN /\ fetch'[f].result = fetch[f].result
               /\ key \in DOMAIN astro_cache'
               /\ astro_cache'[key].expires_at = now + SixHours
               /\ json_loads(astro_cache'[key].text) = fetch'[f].result
               /\ \A k \in DOMAIN astro_cache \ {key} :
                     k \in DOMAIN astro_cache' /\ astro_cache'[k] = astro_cache[k]

\* C10: a fetch that misses the cache posts to planetary-positions and then to
\* vimshottari-dasha and to nothing else, a half is the response's document
\* exactly when its status is 200 and null otherwise, no status makes the
\* fetch raise, and the step that returns writes the result (partial ones
\* included) under the profile's key with six hours to live, the text written
\* decoding to the value returned.
C10_MissFetchesAndCaches == []C10_MissState /\ [][C10_MissReturn]_vars

\* A miss that returned a partial result now held under the profile's key
C10_Witness ==
    \E f \in Fetchers :
        /\ fetch[f].pc = "returned" /\ ~fetch[f].hit
        /\ ~fetch[f].result.planetary_positions.null
        /\ fetch[f].result.dasha_details.null
        /\ RedisGet(CacheKey(fetch[f].profile)) = json_dumps(fetch[f].result)

\* A half is either absent or the document the service computes for the payload
ComputedFrom(half, birth) == half.null \/ half.doc = DocFor(Payload(birth))

\* C11 (as claimed): when patch_profile has changed the birth attributes and
\* returned, the facts stored on the profile and the facts of the response are
\* computed from the edited attributes, never those cached for the attributes
\* the profile had before, also when the edit falls within the cache TTL.
C11_EditInvalidatesFacts ==
    (route.pc = "returned" /\ route.fn = "patch_profile" /\ route.edited) =>
        LET profile == profiles[route.profile]
        IN /\ ComputedFrom(serialize_profile(profile).planetary_positions, profile.birth)
           /\ ComputedFrom(serialize_profile(profile).dasha_details, profile.birth)
           /\ ComputedFrom(route.response.planetary_positions, profile.birth)
           /\ ComputedFrom(route.response.dasha_details, profile.birth)

\* C12 (as claimed): a refresh-astro-data request that returns has had the
\* facts recomputed by the external service (both endpoints posted to) and the
\* cache entry written again, also when the profile's cache key existed when
\* the request came.
C12_RefreshRecomputes ==
    (route.pc = "returned" /\ route.fn = "refresh_astro_data") =>
        /\ ~fetch[RouteFetcher].hit
        /\ fetch[RouteFetcher].calls = Endpoints

\* Generation was invoked for request r
GenerationInvoked(r) == req[r].prompts # <<>>

HistoryRead(r) ==
    req[r].pc \in {"date", "primary", "output_guard", "fallback", "output_guard_2", "save"}

\* The turn a durable row records
TurnOf(row) == Message(row.sender, row.message)

\* C14 (as claimed): with serialized queries, a read of the history after N
\* exchanges gives the 2N turns in creation order, each user turn before its
\* agent turn: the durable log ordered by created_at, and the cache list when
\* it holds the 2N turns.
C14_HistoryInCreationOrder ==
    /\ (conversation.read /\ conversation.offset = 0
            /\ conversation.limit >= conversation.total) =>
          /\ Len(conversation.rows) = Len(chat_messages)
          /\ \A i \in DOMAIN conversation.rows :
                /\ conversation.rows[i].sender = chat_messages[i].sender
                /\ conversation.rows[i].message = chat_messages[i].message
                /\ conversation.rows[i].sender = IF i % 2 = 1 THEN "user" ELSE "agent"
    /\ \A r \in Requests :
          (HistoryRead(r) /\ Len(req[r].chat_history) = Len(chat_messages)) =>
              \A i \in DOMAIN chat_messages : req[r].chat_history[i] = TurnOf(chat_messages[i])

\* C15 (as claimed): the created_at values of a session's rows are strictly
\* increasing in creation order: no two rows share one, and a user row's is
\* strictly less than its agent row's.
C15_StrictlyIncreasingTimestamps ==
    \A i, j \in DOMAIN created_at : i < j => created_at[i] < created_at[j]

\* C16 (as claimed): when the cache entry is absent at the history read (it
\* never existed, expired, or was never written), the history the query uses
\* is the turns of the durable log, in order.
C16_FallbackToDurableLog ==
    \A r \in Requests :
        (HistoryRead(r) /\ req[r].chat_history = <<>>) =>
            /\ Len(req[r].chat_history) = Len(chat_messages)
            /\ \A i \in DOMAIN chat_messages : req[r].chat_history[i] = TurnOf(chat_messages[i])

\* C17 (as claimed): once the durable commit is done, the request returns the
\* answer whatever happens to the rpush and expire calls; the pair stays in
\* the durable log.
C17_CacheWriteBestEffort ==
    \A r \in Requests :
        (req[r].committed /\ req[r].pc \in {"returned", "raised"}) =>
            /\ Returned(r)
            /\ req[r].result = req[r].answer
            /\ LoggedPair(r) = <<Row("user", req[r].query), Row("agent", req[r].answer)>>

\* The entries of list, decoded, are turns of log in the order of log
RECURSIVE Embeds(_, _)
Embeds(list, log) ==
    IF list = <<>> THEN TRUE
    ELSE IF log = <<>> THEN FALSE
    ELSE IF JsonLoads(Head(list)) = TurnOf(Head(log)) THEN Embeds(Tail(list), Tail(log))
    ELSE Embeds(list, Tail(log))

\* C18: the cache list is never ahead of the durable log: in every reachable
\* state, after failures between the writes and after the key expired and
\* was written again, its entries are turns committed to the log, in log order.
C18_CacheNeverAhead == Embeds(messages_list, chat_messages)

\* C18 witness: the key expired after the first exchange and the second
\* exchange wrote it again: two cached turns for four committed ones
C18_Witness ==
    /\ ticks > 0
    /\ Len(chat_messages) = 4
    /\ Len(messages_list) = 2
    /\ \E r \in Requests : Returned(r) /\ HasCached(r)

\* C19 (as claimed): the step that completes an append leaves the session's
\* key with the full 30 days to live, whatever lifetime it had left; and no
\* key outlives the expiry set on it.
C19_ExpiryReset ==
    /\ \A r \in Requests :
          (req[r].pc = "expire" /\ req'[r].pc = "returned") =>
              /\ messages_list' # <<>>
              /\ messages_expiry' = now + 30 * 24 * 60 * 60
    /\ messages_expiry' # -1 => now' < messages_expiry'

C19_ExpiryResetOnEveryAppend == [][C19_ExpiryReset]_vars

\* C20 (as claimed): the prior turns a prompt includes stay under a fixed
\* bound however many exchanges the session has had; the bound is taken here
\* below the 2 * (MaxExchanges - 1) prior turns of the longest session.
C20_BoundedContext ==
    \A r \in Requests : Len(req[r].chat_history) < 2 * (MaxExchanges - 1)

\* The relative offset the query asks for, in days: N * unit
RelativeDays(query) == RelMatch(Lower(query)).num * UnitDays[RelMatch(Lower(query)).unit]

\* C21 (as claimed): for a query that matches "next N {day|week|month|year}s"
\* and names no date, extract_reference_date returns now + N * unit with
\* day = 1, week = 7, month = 30, year = 365 days (offsets whose result is a
\* representable date); "Will I get a promotion next 2 weeks?" at 2025-01-01
\* gives 2025-01-15.
C21_RelativeOffset ==
    (/\ ev.fn = "extract_reference_date"
     /\ RelMatch(Lower(ev.text)).found
     /\ RelMatch(Lower(ev.text)).num
            <= MaxDeltaDays \div UnitDays[RelMatch(Lower(ev.text)).unit]
     /\ ev.today + RelativeDays(ev.text) <= MaxOrdinal) =>
        /\ ev.out = Extracted(strftime(ev.today + RelativeDays(ev.text)))
        /\ (ev.text = Promotion /\ ev.today = Ymd2Ord(2025, 1, 1)) =>
               ev.out.value = <<"2","0","2","5","-","0","1","-","1","5">>

\* C22 (as claimed): extract_reference_date never raises: for every query, a
\* relative offset of any size included, it returns a date or None.
C22_ExtractIsTotal ==
    ev.fn = "extract_reference_date" => ~ev.out.raised

\* Request r ended with the exception of a generation call or of a
\* classification call
CallFailed(r) ==
    req[r].pc = "raised" /\ req[r].exception \in {"generation", "classifier"}

\* C23: a failed generation call or output classification call ends the
\* request with that error: the failed call is not made again (every
\* generation call but the last was followed by its check), no answer is
\* returned, and neither the durable log nor the cache list gets a turn of
\* the exchange.
C23_CallFailurePropagates ==
    \A r \in SerialRequests :
        /\ Len(req[r].prompts) <= Len(req[r].checks) + 1
        /\ CallFailed(r) =>
              /\ req[r].result = <<>>
              /\ ~req[r].committed
              /\ req[r].pushed = 0
              /\ Len(chat_messages) = req[r].log_base
              /\ Len(messages_list) = req[r].cache_base
              /\ Len(req[r].prompts) =
                    Len(req[r].checks) + (IF req[r].exception = "generation" THEN 1 ELSE 0)

\* C23 witness: the second exchange of a session fails in its retry
\* generation call, after the first answer was checked and rejected
C23_Witness ==
    \E r \in SerialRequests :
        /\ CallFailed(r)
        /\ req[r].exception = "generation"
        /\ req[r].prompts = <<"SYSTEM_PROMPT", "FALLBACK_PROMPT">>
        /\ Len(chat_messages) = 2
        /\ Len(messages_list) = 2

\* The call of fetcher f ended with a transport error of one of its posts
TransportFailed(f) == fetch[f].pc = "raised" /\ fetch[f].exception = "httpx"

C24_State ==
    /\ \A f \in Fetchers :
          /\ Len(fetch[f].calls) <= Len(Endpoints)
          /\ \A i \in DOMAIN fetch[f].calls : fetch[f].calls[i] = Endpoints[i]
          /\ fetch[f].pc = "post_dasha" => fetch[f].planetary.status # 0
          /\ fetch[f].pc = "setex" =>
                fetch[f].planetary.status # 0 /\ fetch[f].dasha.status # 0
          /\ TransportFailed(f) => fetch[f].result = NoResult /\ ~fetch[f].hit
    /\ \A p \in Profiles :
          CacheKey(p) \in DOMAIN astro_cache =>
              /\ resolved[p].known
              /\ astro_cache[CacheKey(p)].text = json_dumps(resolved[p].value)
              /\ astro_cache[CacheKey(p)].expires_at = resolved[p].at + FACTS_TTL

C24_Step ==
    \A f \in Fetchers :
        (fetch[f].pc \in {"post_planetary", "post_dasha"} /\ fetch'[f].pc = "raised") =>
            /\ astro_cache' = astro_cache
            /\ resolved' = resolved

\* C24: a transport failure of either post ends fetch_divine_data with the
\* error: each endpoint is posted to at most once and in order, the call goes
\* on only with a response received, the failing step leaves the cache as it
\* was, and whatever the cache holds was written by a call that completed, so
\* a resolve after the failure finds no entry of the failed attempt.
C24_TransportFailurePropagates == []C24_State /\ [][C24_Step]_vars

\* C24 witness: the second post failed after the first was answered, and the
\* profile has no cache entry
C24_Witness ==
    \E f \in Fetchers :
        /\ TransportFailed(f)
        /\ fetch[f].calls = Endpoints
        /\ fetch[f].planetary.status = 200
        /\ CacheKey(fetch[f].profile) \notin DOMAIN astro_cache

\* The cache list, decoded
CachedTurns == [i \in DOMAIN messages_list |-> JsonLoads(messages_list[i])]

\* C26: with two queries in flight on one session nothing orders one exchange
\* after the other: what holds is only that a request's history is the list as
\* it was when the request read it (a prefix of the list, which omits whatever
\* the other request pushes later) and that a request's user turn is in the
\* list before its agent turn. The interleaved list and the history that omits
\* the other exchange are reached in C26_Witness.
C26_NoMutualExclusion ==
    \A r \in Requests :
        /\ req[r].pc \notin {"idle", "input_guard", "history"} =>
              /\ Len(req[r].chat_history) <= Len(messages_list)
              /\ req[r].chat_history = SubSeq(CachedTurns, 1, Len(req[r].chat_history))
        /\ req[r].pushed = 2 =>
              \E i, j \in DOMAIN messages_list :
                  /\ i < j
                  /\ i > Len(req[r].chat_history)
                  /\ CachedTurns[i] = Message("user", req[r].query)
                  /\ CachedTurns[j] = Message("agent", req[r].answer)

\* C26 witness: the list holds user1, user2, agent1, agent2 for two different
\* queries, and neither request's prompt history had the other's exchange
C26_Witness ==
    \E r1, r2 \in Requests :
        /\ req[r1].query # req[r2].query
        /\ req[r1].answer # req[r2].answer
        /\ req[r1].pushed = 2 /\ req[r2].pushed = 2
        /\ req[r1].prompts # <<>> /\ req[r2].prompts # <<>>
        /\ req[r1].chat_history = <<>> /\ req[r2].chat_history = <<>>
        /\ CachedTurns = << Message("user", req[r1].query), Message("user", req[r2].query),
                            Message("agent", req[r1].answer), Message("agent", req[r2].answer) >>

\* The OTP rows of an address created in the 10 minutes that start at `from`
CreatedWithin(ip_address, from) ==
    {i \in DOMAIN otps : /\ otps[i].ip_address = ip_address
                         /\ from <= otps[i].created_at
                         /\ otps[i].created_at <= from + OTP_WINDOW}

C27_State ==
    \A k \in DOMAIN otps :
        Cardinality(CreatedWithin(otps[k].ip_address, otps[k].created_at)) <= RATE_LIMIT

C27_Step ==
    /\ otps' # otps =>
          /\ Len(otps') = Len(otps) + 1
          /\ Cardinality(RecentOtps(otps'[Len(otps')].ip_address)) < RATE_LIMIT
          /\ auth'.status \in {200, 400}
    /\ (auth'.fn = "send_otp" /\ auth'.status = 429) => otps' = otps

\* C27: send-otp from an address with 10 or more OTP rows created in the last
\* 10 minutes answers 429 and inserts nothing, a row is inserted only under the
\* limit (also when its delivery then fails), and so no address has more than
\* 10 rows created within any 10 minutes.
C27_OtpRateLimit == []C27_State /\ [][C27_Step]_vars

\* C27 witness: an address at the limit was refused, with a row whose delivery
\* failed counted, while the other address was served
C27_Witness ==
    /\ auth.fn = "send_otp" /\ auth.status = 429
    /\ Cardinality(RecentOtps("ip1")) = RATE_LIMIT
    /\ Cardinality(RecentOtps("ip2")) = 1
    /\ now > 0

\* C29 (as claimed): an OTP row serves at most one verify-otp that issues
\* tokens.
C29_OtpSingleUse ==
    \A i \in DOMAIN otps : otps[i].verified <= 1

\* C30 (as claimed): a refresh with a token that a logout has succeeded with
\* is answered 401 without an access token, and a refresh is answered 200 only
\* while an unexpired row with the token's hash is stored.
C30_LogoutRevokes ==
    auth.fn = "refresh" =>
        /\ auth.token \in revoked => (auth.status = 401 /\ auth.access_token = NoToken)
        /\ auth.status = 200 =>
              \E rt \in refresh_tokens :
                  rt.token = sha256(auth.token) /\ now <= rt.expires_at

\* C25: every session refers to a profile row that exists, and that profile
\* has the user_id of the session.
C25_SessionProfileSameOwner ==
    \A k \in DOMAIN chat_sessions :
        /\ chat_sessions[k].profile_id \in Profiles
        /\ profile_table[chat_sessions[k].profile_id].state = "live"
        /\ profile_table[chat_sessions[k].profile_id].user_id = chat_sessions[k].user_id

\* C25 witness: a profile with a session survived its owner's delete request,
\* while another profile was deleted
C25_Witness ==
    /\ chat.fn = "delete_profile" /\ chat.status = 500
    /\ chat_sessions # <<>>
    /\ \E p \in Profiles : profile_table[p].state = "deleted"

\* C28: every row of a session was written by a request of the session's
\* owner, a follow-up quotes a row of its own session, and a chat route
\* answers 200 only to the owner of the session it names, with rows of that
\* session only.
C28_OnlyOwnerUsesSession ==
    /\ \A i \in DOMAIN message_rows :
          /\ message_rows[i].session_id \in DOMAIN chat_sessions
          /\ message_rows[i].by = chat_sessions[message_rows[i].session_id].user_id
          /\ message_rows[i].ref # 0 =>
                /\ message_rows[i].ref \in DOMAIN message_rows
                /\ message_rows[message_rows[i].ref].session_id = message_rows[i].session_id
    /\ (chat.fn \in ReadRoutes \cup {"ask_query", "followup_query"} /\ chat.status # 404) =>
          /\ OwnedSession(chat.user, chat.session)
          /\ \A i \in chat.rows : message_rows[i].session_id = chat.session

\* C28 witness: both users have a session, one session holds turns and a
\* follow-up among them, and a read of it by the other user was answered 404
C28_Witness ==
    /\ \E j, k \in DOMAIN chat_sessions : chat_sessions[j].user_id # chat_sessions[k].user_id
    /\ chat.fn \in ReadRoutes /\ chat.status = 404
    /\ chat.session \in DOMAIN chat_sessions
    /\ \E i \in RowsOf(chat.session) : message_rows[i].ref # 0

\* No request is between its first rpush and its expire call
NoCacheWriteInProgress ==
    \A r \in Requests : req[r].pc \notin {"push_agent", "expire"}

\* C31 (as claimed): a transcript cache key that holds turns has an expiry
\* set. The claim is about every reachable state; it is stated here for the
\* states it includes in which no request is still between its pushes and its
\* expiry reset, where a key without expiry stays without one.
C31_CachedKeyHasExpiry ==
    (NoCacheWriteInProgress /\ messages_list # <<>>) => messages_expiry # -1

====
